---- MODULE Spec2Model ----
(***************************************************************************)
(* The Inheritage SDK request dispatcher (src/src/client.ts): the client   *)
(* constructor, the typed endpoint methods and the private send() helper   *)
(* with its supporting functions, as a state machine.  One call on the     *)
(* client is followed from the endpoint method to the envelope it returns  *)
(* or the error it throws; the two await points of send() (the fetch and   *)
(* the body read) are the places where the environment acts.               *)
(***************************************************************************)
EXTENDS Integers, Sequences, FiniteSets, TLC

VARIABLES
  ctor,      \* "none" before `new InheritageClient(options)`, then "ok" or "threw"
  ctorOpts,  \* the options object the constructor was called with
  client,    \* the private fields of the constructed client, or NoClient
  call,      \* the call in progress on the client: descriptor, request, response, result
  other,     \* a second call on the same client, waiting at an await while `call` runs
  hook       \* a mounted React hook: its inputs, its state, its requests in flight

vars == <<ctor, ctorOpts, client, call, other, hook>>

(***************************************************************************)
(* Values.  An optional string (an option, a header token) is a string or  *)
(* None.  A decoded body or a field of the error envelope is a JavaScript  *)
(* value: a record tagged with its type.                                   *)
(***************************************************************************)
None == "<none>"

OrElse(x, d) == IF x = None THEN d ELSE x          \* x ?? d on an optional string

Undef == [t |-> "undefined"]
Null == [t |-> "null"]
Str(s) == [t |-> "string", v |-> s]
Obj(f) == [t |-> "object", f |-> f]
Buf(s) == [t |-> "arraybuffer", v |-> s]
EmptyBuffer == Buf("")                             \* new ArrayBuffer(0)

IsNullish(v) == v.t \in {"undefined", "null"}
Coalesce(a, b) == IF IsNullish(a) THEN b ELSE a    \* a ?? b
IsObject(v) == v.t \in {"object", "arraybuffer"}   \* typeof v === "object" && v !== null
Prop(v, k) == IF v.t = "object" /\ k \in DOMAIN v.f THEN v.f[k] ELSE Undef
OptProp(v, k) == IF IsNullish(v) THEN Undef ELSE Prop(v, k)   \* v?.k

(***************************************************************************)
(* Headers objects.  Names are case-insensitive: a Headers object keeps    *)
(* them lower-cased.  A header's value is the list of the values appended  *)
(* under its name (the platform joins them with ", "); <<>> is "absent".   *)
(***************************************************************************)
HeaderNames ==
  {"accept", "x-inheritage-attribution", "x-inheritage-plan", "user-agent",
   "content-type", "if-none-match", "if-modified-since", "x-custom"}

Lower(name) ==
  CASE name = "Accept" -> "accept"
    [] name = "X-Inheritage-Attribution" -> "x-inheritage-attribution"
    [] name = "X-Inheritage-Plan" -> "x-inheritage-plan"
    [] name = "User-Agent" -> "user-agent"
    [] name = "Content-Type" -> "content-type"
    [] name = "If-None-Match" -> "if-none-match"
    [] name = "If-Modified-Since" -> "if-modified-since"
    [] name = "X-Custom" -> "x-custom"
    [] OTHER -> name

EmptyHeaders == [n \in HeaderNames |-> <<>>]
HSet(h, name, value) == [h EXCEPT ![Lower(name)] = <<value>>]
HAppend(h, name, value) == [h EXCEPT ![Lower(name)] = Append(@, value)]
HHas(h, name) == h[Lower(name)] # <<>>
HGet(h, name) == h[Lower(name)]

\* A HeadersInit argument: absent, an object literal (its entries in order), or a
\* Headers instance.
NoInit == [t |-> "none"]
Plain(entries) == [t |-> "plain", entries |-> entries]
HeadersObj(h) == [t |-> "Headers", h |-> h]

RECURSIVE AppendAll(_, _)
AppendAll(h, entries) ==
  IF entries = <<>> THEN h
  ELSE AppendAll(HAppend(h, entries[1][1], entries[1][2]), Tail(entries))

\* new Headers(init)
NewHeaders(init) ==
  CASE init.t = "none" -> EmptyHeaders
    [] init.t = "plain" -> AppendAll(EmptyHeaders, init.entries)
    [] init.t = "Headers" -> init.h

\* source.forEach((value, key) => target.set(key, value)): every header of source
\* replaces the target's; the joined value arrives as one value.
SetAll(target, source) ==
  [n \in HeaderNames |-> IF source[n] # <<>> THEN source[n] ELSE target[n]]

(***************************************************************************)
(* The constructor.                                                        *)
(***************************************************************************)
ATTRIBUTION_VISIBLE == "visible"
ATTRIBUTION_SUPPRESSED == "suppressed"
PLAN_PUBLIC == "public"
PLAN_COMMERCIAL == "commercial"
DEFAULT_BASE_URL == <<"https://inheritage.foundation", "/", "api", "/", "v1">>
DEFAULT_USER_AGENT == "inheritage-sdk/0.1 (+https://inheritage.foundation/docs/api)"
NoUrl == <<None>>

NoClient == [exists |-> FALSE]

\* url.replace(/\/+$/, ""): a URL is the list of its segments and slashes
RECURSIVE StripTrailingSlashes(_)
StripTrailingSlashes(url) ==
  IF url # <<>> /\ url[Len(url)] = "/"
  THEN StripTrailingSlashes(SubSeq(url, 1, Len(url) - 1))
  ELSE url

RECURSIVE StripLeadingSlashes(_)
StripLeadingSlashes(path) ==
  IF path # <<>> /\ path[1] = "/" THEN StripLeadingSlashes(Tail(path)) ELSE path

\* The attribution and plan the constructor settles on.
CtorAttribution(options) == OrElse(options.attribution, ATTRIBUTION_VISIBLE)
CtorPlan(options) == OrElse(options.plan, PLAN_PUBLIC)

\* Mutant: the guard compares the option as given, before the default is applied.
CtorRejectsAsGiven(options) ==
  options.attribution = ATTRIBUTION_SUPPRESSED /\ options.plan = PLAN_PUBLIC

\* The guard of the constructor: suppressed attribution needs the commercial plan.
CtorRejects(options) ==
  CtorAttribution(options) = ATTRIBUTION_SUPPRESSED /\ CtorPlan(options) # PLAN_COMMERCIAL

\* ensureFetch: the option if it is a function, else the global, else it throws.
ensureFetch(fetchOption, globalFetch) ==
  IF fetchOption # None THEN fetchOption
  ELSE IF globalFetch THEN "globalThis.fetch"
  ELSE None

CtorBaseHeaders(options) ==
  LET h1 == HSet(EmptyHeaders, "Accept", "application/json")
      h2 == HSet(h1, "X-Inheritage-Attribution", CtorAttribution(options))
      h3 == IF CtorPlan(options) = PLAN_COMMERCIAL
            THEN HSet(h2, "X-Inheritage-Plan", PLAN_COMMERCIAL) ELSE h2
      h4 == HSet(h3, "User-Agent", OrElse(options.userAgent, DEFAULT_USER_AGENT))
  IN  IF options.defaultHeaders.t # "none"
      THEN SetAll(h4, NewHeaders(options.defaultHeaders))
      ELSE h4

\* The object a successful construction leaves.
NewClient(options, globalFetch) ==
  [exists |-> TRUE,
   baseUrl |-> StripTrailingSlashes(
                 IF options.baseUrl = NoUrl THEN DEFAULT_BASE_URL ELSE options.baseUrl),
   attribution |-> CtorAttribution(options),
   plan |-> CtorPlan(options),
   fetchImpl |-> ensureFetch(options.fetch, globalFetch),
   baseHeaders |-> CtorBaseHeaders(options)]

CtorThrows(options, globalFetch) ==
  CtorRejects(options) \/ ensureFetch(options.fetch, globalFetch) = None

(***************************************************************************)
(* Query serialisation.  A query mapping is the list of its entries in     *)
(* Object.entries order; a URLSearchParams is a list of <<key, value>>.    *)
(* Keys and values are drawn from tokens that percent-encoding leaves      *)
(* alone.                                                                  *)
(***************************************************************************)
QUndef == [t |-> "undefined"]
QNull == [t |-> "null"]
QStr(s) == [t |-> "string", v |-> s]
QNum(n) == [t |-> "number", n |-> n]
QBool(b) == [t |-> "boolean", b |-> b]
QArr(items) == [t |-> "array", items |-> items]

NoQuery == [t |-> "none"]
QueryMap(entries) == [t |-> "map", entries |-> entries]

\* String(n) for the numbers the model uses
NumStr(n) ==
  CASE n = 0 -> "0" [] n = 1 -> "1" [] n = 2 -> "2" [] n = 5 -> "5"
    [] n = 10 -> "10" [] n = 25 -> "25" [] OTHER -> "NaN"

\* String(value) of a scalar query value
ToQueryString(v) ==
  CASE v.t = "string" -> v.v
    [] v.t = "number" -> NumStr(v.n)
    [] v.t = "boolean" -> (IF v.b THEN "true" ELSE "false")
    [] v.t = "null" -> "null"
    [] v.t = "undefined" -> "undefined"

SPAppend(sp, k, v) == Append(sp, <<k, v>>)

RECURSIVE SPSetFrom(_, _, _, _)
SPSetFrom(sp, k, v, placed) ==
  IF sp = <<>> THEN (IF placed THEN <<>> ELSE <<<<k, v>>>>)
  ELSE IF sp[1][1] = k
       THEN (IF placed THEN <<>> ELSE <<<<k, v>>>>) \o SPSetFrom(Tail(sp), k, v, TRUE)
       ELSE <<sp[1]>> \o SPSetFrom(Tail(sp), k, v, placed)

\* URLSearchParams.set: the first pair of the key takes the value, the others go;
\* a new key is appended.
SPSet(sp, k, v) == SPSetFrom(sp, k, v, FALSE)

RECURSIVE AppendEntries(_, _, _)
AppendEntries(sp, k, items) ==
  IF items = <<>> THEN sp
  ELSE IF items[1].t \in {"null", "undefined"}
       THEN AppendEntries(sp, k, Tail(items))
       ELSE AppendEntries(SPAppend(sp, k, ToQueryString(items[1])), k, Tail(items))

\* Mutant: a null or undefined value is stringified like any scalar.
RECURSIVE SerializeEntriesKeepNull(_, _)
SerializeEntriesKeepNull(sp, entries) ==
  IF entries = <<>> THEN sp
  ELSE LET k == entries[1][1]
           v == entries[1][2]
           next == CASE v.t = "array" -> AppendEntries(sp, k, v.items)
                     [] OTHER -> SPSet(sp, k, ToQueryString(v))
       IN  SerializeEntriesKeepNull(next, Tail(entries))

RECURSIVE SerializeEntries(_, _)
SerializeEntries(sp, entries) ==
  IF entries = <<>> THEN sp
  ELSE LET k == entries[1][1]
           v == entries[1][2]
           next == CASE v.t \in {"null", "undefined"} -> sp
                     [] v.t = "array" -> AppendEntries(sp, k, v.items)
                     [] OTHER -> SPSet(sp, k, ToQueryString(v))
       IN  SerializeEntries(next, Tail(entries))

serializeQuery(params) ==
  IF params.t = "none" THEN <<>> ELSE SerializeEntries(<<>>, params.entries)

\* query.forEach((value, key) => existing.set(key, value))
RECURSIVE MergeQuery(_, _)
MergeQuery(existing, pairs) ==
  IF pairs = <<>> THEN existing
  ELSE MergeQuery(SPSet(existing, pairs[1][1], pairs[1][2]), Tail(pairs))

\* The URL of a request: new URL(relativePath, base), then the query merged into
\* its (empty) search parameters.
SendUrl(c, d) ==
  LET base == IF c.baseUrl # <<>> /\ c.baseUrl[Len(c.baseUrl)] = "/"
              THEN c.baseUrl ELSE Append(c.baseUrl, "/")
      relativePath == StripLeadingSlashes(d.path)
      query == IF d.query.t # "none" THEN serializeQuery(d.query) ELSE <<>>
  IN  [path |-> base \o relativePath,
       search |-> IF Len(query) > 0 THEN MergeQuery(<<>>, query) ELSE <<>>]

(***************************************************************************)
(* send(), up to the fetch: headers, payload, and the request handed to    *)
(* the fetch function.  A request body is a JavaScript value tagged with   *)
(* its class.                                                              *)
(***************************************************************************)
JSON_CONTENT_TYPE == "application/json; charset=utf-8"

JsonText(v) == [t |-> "string", json |-> v]          \* JSON.stringify(v)

HasBody(body) == body.t \notin {"undefined", "null"}

prepareHeaders(c, overrides, body) ==
  LET h1 == c.baseHeaders
      h2 == IF overrides.t # "none" THEN SetAll(h1, NewHeaders(overrides)) ELSE h1
  IN  IF /\ HasBody(body)
         /\ ~HHas(h2, "Content-Type")
         /\ body.t \notin {"FormData", "Blob", "arraybuffer", "string"}
      THEN HSet(h2, "Content-Type", JSON_CONTENT_TYPE)
      ELSE h2

IsPassThroughBody(body) ==
  body.t \in {"string", "URLSearchParams", "FormData", "Blob", "arraybuffer"}

\* Mutant: the conditional tokens are set before the per-call headers.
SendHeadersTokensFirst(c, d) ==
  LET h1 == IF d.ifNoneMatch \notin {None, ""}
            THEN HSet(c.baseHeaders, "If-None-Match", d.ifNoneMatch) ELSE c.baseHeaders
      h2 == IF d.ifModifiedSince \notin {None, ""}
            THEN HSet(h1, "If-Modified-Since", d.ifModifiedSince) ELSE h1
  IN  prepareHeaders([c EXCEPT !.baseHeaders = h2], d.headers, d.body)

\* The headers of the request: prepareHeaders, then the conditional tokens, then
\* the Content-Type of a JSON-encoded payload.
SendHeaders(c, d) ==
  LET h1 == prepareHeaders(c, d.headers, d.body)
      h2 == IF d.ifNoneMatch \notin {None, ""}
            THEN HSet(h1, "If-None-Match", d.ifNoneMatch) ELSE h1
      h3 == IF d.ifModifiedSince \notin {None, ""}
            THEN HSet(h2, "If-Modified-Since", d.ifModifiedSince) ELSE h2
  IN  IF HasBody(d.body) /\ ~IsPassThroughBody(d.body) /\ ~HHas(h3, "Content-Type")
      THEN HSet(h3, "Content-Type", JSON_CONTENT_TYPE)
      ELSE h3

SendPayload(d) ==
  IF ~HasBody(d.body) THEN Undef
  ELSE IF IsPassThroughBody(d.body) THEN d.body
  ELSE JsonText(d.body)

\* What send() hands to this.fetchImpl
SendRequest(c, d) ==
  [url |-> SendUrl(c, d),
   method |-> d.method,
   headers |-> SendHeaders(c, d),
   body |-> SendPayload(d),
   signal |-> d.signal]

(***************************************************************************)
(* The response.  A content type is the list of its tokens, cut so that    *)
(* every pattern inferResponseType looks for is a run of whole tokens      *)
(* ("application/jsonl" is "application/", "json", "l": it contains        *)
(* "application/json", as the string does).  A body is its text and what   *)
(* JSON.parse makes of it.                                                 *)
(***************************************************************************)
NotJson == [t |-> "invalid"]
Num(n) == [t |-> "number", n |-> n]
NaN == [t |-> "NaN"]

LowerToken(tok) ==
  CASE tok = "Application/" -> "application/"
    [] tok = "JSON" -> "json"
    [] tok = "Text/" -> "text/"
    [] OTHER -> tok

toLowerCase(ct) == [i \in 1..Len(ct) |-> LowerToken(ct[i])]

includes(ct, pattern) ==
  \E i \in 0..(Len(ct) - Len(pattern)) :
    \A j \in 1..Len(pattern) : ct[i + j] = pattern[j]

startsWith(ct, pattern) ==
  Len(ct) >= Len(pattern) /\ \A j \in 1..Len(pattern) : ct[j] = pattern[j]

\* Mutant: the JSON rule is tried before the line-delimited rule.
inferResponseTypeJsonFirst(contentType) ==
  LET normalized == toLowerCase(contentType)
  IN  IF normalized = <<>> THEN "text"
      ELSE IF \/ includes(normalized, <<"application/", "zip">>)
              \/ includes(normalized, <<"application/", "octet-stream">>)
      THEN "arrayBuffer"
      ELSE IF \/ includes(normalized, <<"application/", "json">>)
              \/ includes(normalized, <<"+", "json">>)
      THEN "json"
      ELSE "text"

inferResponseType(contentType) ==
  LET normalized == toLowerCase(contentType)
  IN  IF normalized = <<>> THEN "text"
      ELSE IF \/ includes(normalized, <<"application/", "zip">>)
              \/ includes(normalized, <<"application/", "octet-stream">>)
      THEN "arrayBuffer"
      ELSE IF \/ includes(normalized, <<"application/", "x-nd", "json">>)
              \/ includes(normalized, <<"application/", "json", "l">>)
      THEN "text"
      ELSE IF \/ includes(normalized, <<"application/", "json">>)
              \/ includes(normalized, <<"+", "json">>)
      THEN "json"
      ELSE IF \/ startsWith(normalized, <<"text/">>)
              \/ includes(normalized, <<"application/", "xml">>)
      THEN "text"
      ELSE "text"

\* Number(s) of a header value
Number(s) ==
  CASE s = "0" -> Num(0) [] s = "30" -> Num(30) [] s = "60" -> Num(60)
    [] s = "118" -> Num(118) [] s = "120" -> Num(120) [] s = "-5" -> Num(-5)
    [] OTHER -> NaN

\* Mutant: a header that is missing or not a number is reported as 0.
toRateLimitPartial(r) ==
  LET value(s) == IF s \in {None, ""} \/ Number(s) = NaN THEN 0 ELSE Number(s).n
  IN  IF r.rlLimit = None /\ r.rlRemaining = None /\ r.rlReset = None
      THEN Undef
      ELSE [t |-> "object", limit |-> value(r.rlLimit),
            remaining |-> value(r.rlRemaining), reset |-> value(r.rlReset)]

toRateLimit(r) ==
  IF r.rlLimit \in {None, ""} \/ r.rlRemaining \in {None, ""} \/ r.rlReset \in {None, ""}
  THEN Undef
  ELSE LET limit == Number(r.rlLimit)
           remaining == Number(r.rlRemaining)
           reset == Number(r.rlReset)
       IN  IF NaN \in {limit, remaining, reset} THEN Undef
           ELSE [t |-> "object", limit |-> limit.n, remaining |-> remaining.n,
                 reset |-> reset.n]

\* new Date(s).getTime(), in milliseconds
DateTime(s) ==
  CASE s = "Wed, 21 Oct 2015 07:28:45 GMT" -> Num(45000)
    [] OTHER -> NaN

\* Math.ceil(a / b) for b > 0
CeilDiv(a, b) == -((-a) \div b)

parseRetryAfter(r) ==
  IF r.retryAfter \in {None, ""} THEN Null
  ELSE LET numeric == Number(r.retryAfter)
           date == DateTime(r.retryAfter)
       IN  IF numeric # NaN THEN numeric
           ELSE IF date # NaN
           THEN LET secs == CeilDiv(date.n - r.now, 1000)
                IN  Num(IF secs > 0 THEN secs ELSE 0)
           ELSE Null

\* Mutant: a redirect status counts as a success.
ResponseOkBelow400(r) == r.status \in 200..399

ResponseOk(r) == r.status \in 200..299              \* response.ok

\* Mutant: the caller's hint is preferred to a JSON inference.
FinalTypeHintFirst(d, r) ==
  OrElse(d.responseType, inferResponseType(r.contentType))

\* finalType: JSON inference wins, else the caller's hint, else the inferred type.
FinalType(d, r) ==
  LET contentType == r.contentType        \* headers.get("Content-Type") || ""
      inferredType == inferResponseType(contentType)
  IN  IF inferredType = "json" THEN "json"
      ELSE OrElse(d.responseType, inferredType)

\* What the body read yields: the decoded body, or the zero value of the type
\* when the read or the parse fails (the catch block).
ZeroValue(finalType) ==
  CASE finalType = "arrayBuffer" -> EmptyBuffer
    [] finalType = "text" -> Str("")
    [] OTHER -> Null

Decode(finalType, body, readOk) ==
  IF ~readOk THEN ZeroValue(finalType)
  ELSE CASE finalType = "arrayBuffer" -> Buf(body.text)
         [] finalType = "text" -> Str(body.text)
         [] OTHER -> IF body.json = NotJson THEN ZeroValue(finalType) ELSE body.json

\* response.headers
ResponseHeaders(r) ==
  [contentType |-> r.contentType, traceId |-> r.traceId, retryAfter |-> r.retryAfter,
   rlLimit |-> r.rlLimit, rlRemaining |-> r.rlRemaining, rlReset |-> r.rlReset]

\* traceId: response.headers.get("X-Trace-Id") ?? undefined
TraceIdOf(r) == IF r.traceId = None THEN Undef ELSE Str(r.traceId)

Envelope(r, data, notModified) ==
  [kind |-> "envelope", status |-> r.status, data |-> data,
   headers |-> ResponseHeaders(r),
   traceId |-> TraceIdOf(r), rateLimit |-> toRateLimit(r), notModified |-> notModified]

\* new InheritageApiError(args): the error carries the fields it is given.
InheritageApiError(args) ==
  [kind |-> "InheritageApiError", status |-> args.status, code |-> args.code,
   message |-> args.message, hint |-> args.hint, doc |-> args.doc,
   traceId |-> args.traceId, retryAfter |-> args.retryAfter,
   rateLimit |-> args.rateLimit, payload |-> args.payload]

\* Mutant: the trace id of the response header is preferred to the envelope's.
SendErrorHeaderTraceFirst(r, parsedBody) ==
  LET errorEnvelope == IF IsObject(parsedBody) THEN Prop(parsedBody, "error") ELSE Undef
  IN  InheritageApiError(
        [status |-> r.status,
         code |-> Coalesce(OptProp(errorEnvelope, "code"), Str("INTERNAL_SERVER_ERROR")),
         message |-> Coalesce(OptProp(errorEnvelope, "message"), Str(r.statusText)),
         hint |-> Coalesce(OptProp(errorEnvelope, "hint"), Null),
         doc |-> Coalesce(OptProp(errorEnvelope, "doc"), Null),
         traceId |-> Coalesce(TraceIdOf(r), OptProp(errorEnvelope, "trace_id")),
         retryAfter |-> parseRetryAfter(r),
         rateLimit |-> toRateLimit(r),
         payload |-> parsedBody])

\* The error of a failing response, from the parsed body and the headers.
SendError(r, parsedBody) ==
  LET errorEnvelope == IF IsObject(parsedBody) THEN Prop(parsedBody, "error") ELSE Undef
  IN  InheritageApiError(
        [status |-> r.status,
         code |-> Coalesce(OptProp(errorEnvelope, "code"), Str("INTERNAL_SERVER_ERROR")),
         message |-> Coalesce(OptProp(errorEnvelope, "message"), Str(r.statusText)),
         hint |-> Coalesce(OptProp(errorEnvelope, "hint"), Null),
         doc |-> Coalesce(OptProp(errorEnvelope, "doc"), Null),
         traceId |-> Coalesce(OptProp(errorEnvelope, "trace_id"), TraceIdOf(r)),
         retryAfter |-> parseRetryAfter(r),
         rateLimit |-> toRateLimit(r),
         payload |-> parsedBody])

\* The end of send(): throw on a failing status, else return the envelope.
SendSettle(c, parsedBody) ==
  IF ~ResponseOk(c.resp)
  THEN [c EXCEPT !.pc = "threw", !.result = SendError(c.resp, parsedBody)]
  ELSE [c EXCEPT !.pc = "returned", !.result = Envelope(c.resp, parsedBody, FALSE)]

NOT_MODIFIED == 304
NO_CONTENT == 204

\* Mutant: no early return for 304; it is read and classified like any status.
SendOnResponseNoEarlyReturn(c, r) ==
  LET typed == [c EXCEPT !.resp = r, !.finalType = FinalType(c.desc, r)]
  IN  IF r.status # NO_CONTENT
      THEN [typed EXCEPT !.pc = "reading", !.bodyReads = @ + 1]
      ELSE SendSettle(typed, Null)

\* send() from the response to the body read: 304 returns at once, 204 skips the
\* read, every other status starts the read chosen by the final type.
SendOnResponse(c, r) ==
  LET got == [c EXCEPT !.resp = r]
  IN  IF r.status = NOT_MODIFIED
      THEN [got EXCEPT !.pc = "returned", !.result = Envelope(r, Null, TRUE)]
      ELSE LET typed == [got EXCEPT !.finalType = FinalType(c.desc, r)]
           IN  IF r.status # NO_CONTENT
               THEN [typed EXCEPT !.pc = "reading", !.bodyReads = @ + 1]
               ELSE SendSettle(typed, Null)

\* Mutant: a throttled or unavailable answer with a Retry-After is fetched again.
SendRetrying(c, r) ==
  IF r.status \in {429, 503} /\ r.retryAfter # None /\ c.fetches < 2
  THEN [c EXCEPT !.fetches = @ + 1]
  ELSE SendOnResponse(c, r)

\* const response = await this.fetchImpl(...): the one fetch of the call has
\* resolved and send() goes on with its response.
SendAfterFetch(c, r) == SendOnResponse(c, r)

\* Mutant: a rejected fetch is reported as an API error.
SendWrappingRejection(c, e) ==
  [c EXCEPT !.pc = "threw",
            !.result = InheritageApiError(
                         [status |-> 0, code |-> Str("NETWORK_ERROR"), message |-> Str(e),
                          hint |-> Null, doc |-> Null, traceId |-> Undef,
                          retryAfter |-> Null, rateLimit |-> Undef, payload |-> Null])]

\* await this.fetchImpl(...) rejects with e: nothing catches it, so the promise
\* of send() rejects with e.
SendAfterFetchRejects(c, e) ==
  [c EXCEPT !.pc = "rejected", !.result = [kind |-> "rejection", error |-> e]]

\* Mutant: no catch around the body read; a failed read or parse rejects send().
SendAfterBodyPropagating(c, readOk) ==
  LET settled == [c EXCEPT !.read = IF readOk THEN "ok" ELSE "failed"]
  IN  IF ~readOk \/ (c.finalType = "json" /\ c.resp.body.json = NotJson)
      THEN [settled EXCEPT !.pc = "rejected",
                           !.result = [kind |-> "rejection", error |-> "SyntaxError"]]
      ELSE SendSettle(settled, Decode(c.finalType, c.resp.body, readOk))

\* The body read has settled (the try/catch around it), and send() ends.
SendAfterBody(c, readOk) ==
  SendSettle([c EXCEPT !.read = IF readOk THEN "ok" ELSE "failed"],
             Decode(c.finalType, c.resp.body, readOk))

(***************************************************************************)
(* parseNdjsonRecords.  An NDJSON text is the list of its tokens: a line   *)
(* break ("\n" or "\r\n"), a blank, or a run of other characters that is   *)
(* either a JSON document or not one.                                      *)
(***************************************************************************)
LineBreaks == {"\n", "\r\n"}
Blank == " "
JsonDocuments == {"{\"slug\":\"hampi\"}", "{\"slug\":\"konark\"}"}
BrokenDocument == "{\"slug\":"

\* input.split(/\r?\n/)
RECURSIVE SplitLines(_, _)
SplitLines(text, line) ==
  IF text = <<>> THEN <<line>>
  ELSE IF text[1] \in LineBreaks THEN <<line>> \o SplitLines(Tail(text), <<>>)
  ELSE SplitLines(Tail(text), Append(line, text[1]))

\* line.trim()
RECURSIVE TrimStart(_)
TrimStart(line) ==
  IF line # <<>> /\ line[1] = Blank THEN TrimStart(Tail(line)) ELSE line

RECURSIVE TrimEnd(_)
TrimEnd(line) ==
  IF line # <<>> /\ line[Len(line)] = Blank
  THEN TrimEnd(SubSeq(line, 1, Len(line) - 1)) ELSE line

Trim(line) == TrimEnd(TrimStart(line))

\* JSON.parse(line) of a trimmed line: the value, or NotJson when it throws
JsonParse(line) ==
  IF Len(line) # 1 THEN NotJson
  ELSE CASE line[1] = "{\"slug\":\"hampi\"}" -> Obj([slug |-> Str("hampi")])
         [] line[1] = "{\"slug\":\"konark\"}" -> Obj([slug |-> Str("konark")])
         [] OTHER -> NotJson

NdjsonError == [kind |-> "Error", message |-> "Failed to parse NDJSON vector record"]

RECURSIVE ParseLines(_, _)
ParseLines(lines, records) ==
  IF lines = <<>> THEN [ok |-> TRUE, records |-> records]
  ELSE IF lines[1] = <<>> THEN ParseLines(Tail(lines), records)        \* continue
  ELSE IF JsonParse(lines[1]) = NotJson THEN [ok |-> FALSE, records |-> <<>>]
  ELSE ParseLines(Tail(lines), Append(records, JsonParse(lines[1])))

\* Mutant: a line that is not JSON is skipped.
parseNdjsonRecordsSkippingBad(input) ==
  LET lines == SplitLines(input, <<>>)
      good == SelectSeq(lines, LAMBDA l : JsonParse(Trim(l)) # NotJson)
  IN  [ok |-> TRUE, records |-> [i \in 1..Len(good) |-> JsonParse(Trim(good[i]))]]

parseNdjsonRecords(input) ==
  IF input = <<>> THEN [ok |-> TRUE, records |-> <<>>]
  ELSE LET split == SplitLines(input, <<>>)
           lines == [i \in 1..Len(split) |-> Trim(split[i])]
       IN  ParseLines(lines, <<>>)

Arr(items) == [t |-> "array", items |-> items]

\* The rest of an endpoint method once its send() has settled.  Every method
\* returns what send() returns or throws what it throws, but getAIVectorIndex,
\* which replaces data by the records of the text (a failed read has left the
\* empty text; data that is no string counts as the empty text).
MethodAfterSend(c) ==
  IF c.entry.m = "getAIVectorIndex" /\ c.pc = "returned"
  THEN LET data == c.result.data
           text == IF data.t = "string" /\ c.read = "ok" THEN data.v ELSE <<>>
           parsed == parseNdjsonRecords(text)
       IN  IF parsed.ok
           THEN [c EXCEPT !.result.data = Arr(parsed.records)]
           ELSE [c EXCEPT !.pc = "threw", !.result = NdjsonError]
  ELSE c

(***************************************************************************)
(* The state machine.                                                      *)
(***************************************************************************)
NoEntry == [m |-> "none"]
NoDescriptor == [t |-> "none"]
NoRequest == [t |-> "none"]
NoResponse == [status |-> 0]
NoResult == [kind |-> "none"]

IdleCall ==
  [pc |-> "idle", entry |-> NoEntry, desc |-> NoDescriptor, req |-> NoRequest,
   fetches |-> 0, fetchVia |-> None, fetchError |-> None, bodyReads |-> 0,
   read |-> "none",
   resp |-> NoResponse, finalType |-> None, result |-> NoResult]

\* send(d), from its first line to the call of the fetch function
SendStart(c, entry, d) ==
  [IdleCall EXCEPT !.pc = "fetching", !.entry = entry, !.desc = d,
                   !.req = SendRequest(c, d), !.fetches = 1, !.fetchVia = c.fetchImpl]

Settled(c) == c.pc \in {"idle", "returned", "threw", "rejected"}

\* new InheritageClient(options)
Construct(options, globalFetch) ==
  /\ ctor = "none"
  /\ ctorOpts' = options
  /\ IF CtorThrows(options, globalFetch)
     THEN ctor' = "threw" /\ client' = NoClient
     ELSE ctor' = "ok" /\ client' = NewClient(options, globalFetch)
  /\ UNCHANGED <<call, other, hook>>

\* Mutant: prepareHeaders works on this.baseHeaders itself, not on a copy.
BaseHeadersShared(c, d) == SendHeaders(c, d)

\* this.baseHeaders once send(d) has built its request: prepareHeaders copies it
\* (new Headers(this.baseHeaders)), and every set() acts on the copy.
BaseHeadersAfterSend(c, d) == c.baseHeaders

\* No hook is mounted
NoHook == [mounted |-> FALSE]

\* The event loop goes on with the other call: the two calls change places.
Switch ==
  /\ ctor = "ok"
  /\ call' = other
  /\ other' = call
  /\ UNCHANGED <<ctor, ctorOpts, client, hook>>

\* A call of send(d) on the constructed client, once the previous call has settled
Send(d) ==
  /\ ctor = "ok"
  /\ Settled(call)
  /\ call' = SendStart(client, [m |-> "send"], d)
  /\ client' = [client EXCEPT !.baseHeaders = BaseHeadersAfterSend(client, d)]
  /\ UNCHANGED <<ctor, ctorOpts, other, hook>>

\* The fetch promise resolves with a response
FetchResolve(r) ==
  /\ call.pc = "fetching"
  /\ call' = MethodAfterSend(SendAfterFetch(call, r))
  /\ UNCHANGED <<ctor, ctorOpts, client, other, hook>>

\* The fetch promise rejects: a network failure, or an abort through the signal
FetchReject(e) ==
  /\ call.pc = "fetching"
  /\ e = "AbortError" => call.req.signal # None
  /\ call' = MethodAfterSend(SendAfterFetchRejects([call EXCEPT !.fetchError = e], e))
  /\ UNCHANGED <<ctor, ctorOpts, client, other, hook>>

\* The body read resolves or rejects
BodySettle(readOk) ==
  /\ call.pc = "reading"
  /\ call' = MethodAfterSend(SendAfterBody(call, readOk))
  /\ UNCHANGED <<ctor, ctorOpts, client, other, hook>>

(***************************************************************************)
(* Inputs of the dispatcher specification.                                 *)
(***************************************************************************)
NoOptions == [t |-> "none"]

Options(attribution, plan, fetch, extra) ==
  [attribution |-> attribution, plan |-> plan, fetch |-> fetch,
   baseUrl |-> extra.baseUrl, userAgent |-> extra.userAgent,
   defaultHeaders |-> extra.defaultHeaders]

OptionExtras ==
  {[baseUrl |-> NoUrl, userAgent |-> None, defaultHeaders |-> NoInit],
   [baseUrl |-> <<"https://mirror.example", "/", "api", "/", "/">>,
    userAgent |-> "my-app/1.0",
    defaultHeaders |-> Plain(<<<<"X-Inheritage-Plan", "commercial">>>>)],
   [baseUrl |-> NoUrl, userAgent |-> None,
    defaultHeaders |-> Plain(<<<<"content-type", "text/plain">>,
                               <<"X-Custom", "from-defaults">>>>)]}

CtorOptions ==
  {Options(a, p, f, x) :
     a \in {None, ATTRIBUTION_VISIBLE, ATTRIBUTION_SUPPRESSED},
     p \in {None, PLAN_PUBLIC, PLAN_COMMERCIAL},
     f \in {None, "customFetch"},
     x \in OptionExtras}

DefaultOptions == Options(None, None, None, [baseUrl |-> NoUrl, userAgent |-> None,
                                             defaultHeaders |-> NoInit])

Descriptor(method, path) ==
  [method |-> method, path |-> path, query |-> NoQuery, body |-> Undef,
   headers |-> NoInit, ifNoneMatch |-> None, ifModifiedSince |-> None,
   signal |-> None, responseType |-> None]

SendDescriptors ==
  {[Descriptor("GET", <<"/", "stats">>) EXCEPT !.responseType = t] :
     t \in {None, "json", "text", "arrayBuffer"}}
  \cup
  {[Descriptor("POST", <<"/", "ai", "/", "similar">>) EXCEPT
      !.body = Obj([slug |-> Str("taj-mahal")]),
      !.headers = Plain(<<<<"X-Custom", "per-call">>>>),
      !.ifNoneMatch = "etag-1", !.signal = "signal-1", !.responseType = t] :
     t \in {None, "text"}}

Response(status, contentType, body) ==
  [status |-> status, statusText |-> "status text", contentType |-> contentType,
   traceId |-> None, retryAfter |-> None, rlLimit |-> None, rlRemaining |-> None,
   rlReset |-> None, body |-> body, now |-> 0]

Statuses == {200, 204, 299, 300, 304, 404, 429, 503}

ContentTypes ==
  {<<>>, <<"application/", "json">>, <<"text/", "plain">>, <<"application/", "zip">>,
   <<"Application/", "ld", "+", "JSON">>, <<"application/", "x-nd", "json">>}

ErrorBody(envelope) == [text |-> "{json text}", json |-> Obj([error |-> envelope])]

Bodies ==
  {[text |-> "", json |-> NotJson],
   [text |-> "plain text", json |-> NotJson],
   ErrorBody(Obj([code |-> Str("NOT_FOUND"), message |-> Str("No such site.")]))}

Responses ==
  {Response(s, ct, b) : s \in Statuses, ct \in ContentTypes, b \in Bodies}
  \cup
  {[Response(s, <<"application/", "json">>, b) EXCEPT
      !.traceId = "trace-1", !.retryAfter = "30", !.rlLimit = "120",
      !.rlRemaining = "118", !.rlReset = "60"] :
     s \in {200, 304, 429, 503}, b \in Bodies}

FetchErrors == {"TypeError", "AbortError"}

Init ==
  /\ ctor = "none"
  /\ ctorOpts = NoOptions
  /\ client = NoClient
  /\ call = IdleCall
  /\ other = IdleCall
  /\ hook = NoHook

Next ==
  \/ \E o \in CtorOptions, g \in BOOLEAN : Construct(o, g)
  \/ \E d \in SendDescriptors : Send(d)
  \/ \E r \in Responses : FetchResolve(r)
  \/ \E e \in FetchErrors : FetchReject(e)
  \/ \E ok \in BOOLEAN : BodySettle(ok)

Spec == Init /\ [][Next]_vars

(***************************************************************************)
(* The error envelope: a default client, failing responses whose bodies    *)
(* carry every shape of envelope.                                          *)
(***************************************************************************)
EnvFields == {"code", "message", "hint", "doc", "trace_id"}

EnvValue(k) ==
  CASE k = "code" -> "RATE_LIMITED"
    [] k = "message" -> "Rate limit exceeded."
    [] k = "hint" -> "Respect Retry-After."
    [] k = "doc" -> "https://inheritage.foundation/docs/api/errors#RATE_LIMITED"
    [] k = "trace_id" -> "trace-429"

\* every envelope object: each field absent, null or a string
Envelopes ==
  {Obj([k \in present |-> IF k \in nulls THEN Null ELSE Str(EnvValue(k))]) :
     present \in SUBSET EnvFields, nulls \in SUBSET EnvFields}

ErrBodies ==
  {ErrorBody(e) : e \in Envelopes}
  \cup
  {ErrorBody(Null), ErrorBody(Str("boom")),
   [text |-> "{}", json |-> Obj([k \in {} |-> Null])],
   [text |-> "upstream failure", json |-> NotJson]}

ErrResponses ==
  {[Response(s, ct, b) EXCEPT !.statusText = st, !.traceId = tr, !.retryAfter = "30"] :
     s \in {404, 429}, ct \in {<<"application/", "json">>, <<"text/", "plain">>},
     b \in ErrBodies, st \in {"", "Too Many Requests"}, tr \in {None, "trace-header"}}

InitDefault ==
  /\ ctor = "ok"
  /\ ctorOpts = DefaultOptions
  /\ client = NewClient(DefaultOptions, TRUE)
  /\ call = IdleCall
  /\ other = IdleCall
  /\ hook = NoHook

NextErr ==
  \/ \E d \in {Descriptor("GET", <<"/", "heritage", "/", "random">>)} : Send(d)
  \/ \E r \in ErrResponses : FetchResolve(r)
  \/ \E e \in {"TypeError"} : FetchReject(e)
  \/ \E ok \in BOOLEAN : BodySettle(ok)

SpecErr == InitDefault /\ [][NextErr]_vars

(***************************************************************************)
(* Properties of the constructor and of send().                            *)
(***************************************************************************)

\* C1: a constructor call with attribution "suppressed" and a plan that is not
\* "commercial" (given as "public" or omitted) throws: no client exists and no
\* call, hence no fetch, is ever made through it.
C1_SuppressedNeedsCommercial ==
  (/\ ctor # "none"
   /\ ctorOpts.attribution = ATTRIBUTION_SUPPRESSED
   /\ ctorOpts.plan # PLAN_COMMERCIAL)
  => (ctor = "threw" /\ client = NoClient /\ call = IdleCall /\ call.fetches = 0)

C1_Witness ==
  /\ ctor = "threw"
  /\ ctorOpts.attribution = ATTRIBUTION_SUPPRESSED
  /\ ctorOpts.plan = None
  /\ ctorOpts.fetch # None

\* C2: a call of send() that has reached the network has invoked the configured
\* fetch function exactly once, whatever the response (a 429 or 503 with a
\* Retry-After included).
C2_OneFetchPerCall ==
  call.pc # "idle" => (call.fetches = 1 /\ call.fetchVia = client.fetchImpl)

C2_Witness ==
  /\ call.pc = "threw"
  /\ call.resp.status \in {429, 503}
  /\ call.resp.retryAfter = "30"
  /\ call.fetches = 1

\* C3: a response with status 304 makes send() return the envelope with data null
\* and notModified true, with no body read, whatever the content type, the body
\* and the responseType hint.
C3_NotModified ==
  call.resp.status = NOT_MODIFIED =>
    /\ call.pc = "returned"
    /\ call.result.kind = "envelope"
    /\ call.result.data = Null
    /\ call.result.notModified = TRUE
    /\ call.bodyReads = 0

C3_Witness ==
  /\ call.pc = "returned"
  /\ call.resp.status = NOT_MODIFIED
  /\ call.resp.contentType = <<"application/", "json">>
  /\ call.resp.body.json # NotJson
  /\ call.desc.responseType = "text"
  /\ call.result.notModified = TRUE

\* C4: send() returns an envelope exactly when the status is in 200..299 or is
\* 304; for any other status it throws an InheritageApiError with that status.
C4_ReturnsIffOkOrNotModified ==
  call.pc \in {"returned", "threw"} =>
    /\ (call.pc = "returned") <=>
         (call.resp.status \in 200..299 \/ call.resp.status = NOT_MODIFIED)
    /\ call.pc = "returned" =>
         (call.result.kind = "envelope" /\ call.result.status = call.resp.status)
    /\ call.pc = "threw" =>
         (call.result.kind = "InheritageApiError" /\ call.result.status = call.resp.status)

C4_Witness ==
  /\ call.pc = "threw"
  /\ call.resp.status = 300
  /\ call.result.kind = "InheritageApiError"
  /\ call.result.status = 300

\* C5: the thrown error takes code, message, hint, doc and traceId from the error
\* object of a body decoded as JSON; a field that is absent or null there (or the
\* whole envelope, or a body that is not JSON) falls back to INTERNAL_SERVER_ERROR,
\* the status text, null, null and the X-Trace-Id header.
C5_ErrorFields ==
  call.pc = "threw" =>
    LET r == call.resp
        body == r.body.json
        hasEnvelope == /\ call.finalType = "json"
                       /\ call.read = "ok"
                       /\ body.t = "object"
                       /\ "error" \in DOMAIN body.f
                       /\ body.f.error.t = "object"
        Given(k) == hasEnvelope /\ k \in DOMAIN body.f.error.f
                                /\ body.f.error.f[k] # Null
        Field(k, fallback) == IF Given(k) THEN body.f.error.f[k] ELSE fallback
    IN  /\ call.result.code = Field("code", Str("INTERNAL_SERVER_ERROR"))
        /\ call.result.message = Field("message", Str(r.statusText))
        /\ call.result.hint = Field("hint", Null)
        /\ call.result.doc = Field("doc", Null)
        /\ call.result.traceId =
             Field("trace_id", IF r.traceId = None THEN Undef ELSE Str(r.traceId))

C5_Witness ==
  /\ call.pc = "threw"
  /\ call.resp.status = 429
  /\ call.resp.traceId = "trace-header"
  /\ call.result.code = Str("RATE_LIMITED")
  /\ call.result.hint = Str("Respect Retry-After.")
  /\ call.result.doc = Null
  /\ call.result.traceId = Str("trace-429")
  /\ call.result.retryAfter = Num(30)

\* C8: a response with status 204 is not read, and the data returned is the zero
\* value of the decoding type: "" for text, an empty buffer for binary, null for
\* JSON.
C8_NoContentZeroValue ==
  (call.pc = "returned" /\ call.resp.status = NO_CONTENT) =>
    (call.bodyReads = 0 /\ call.result.data = ZeroValue(call.finalType))

(***************************************************************************)
(* Query mappings: a default client, calls of send() whose descriptor      *)
(* carries every mapping over the keys below.                              *)
(***************************************************************************)
MaxArrayLen == 2

ArrayItems == {QNull, QStr("name"), QBool(TRUE)}

Arrays == UNION {[1..n -> ArrayItems] : n \in 0..MaxArrayLen}

\* the values each key may have
QueryValues(k) ==
  CASE k = "limit" -> {QUndef, QNum(10)}
    [] k = "state" -> {QNull, QStr("Goa")}
    [] k = "fields" -> {QArr(a) : a \in Arrays}

QueryKeys == {"limit", "state", "fields"}

\* the orders in which a mapping may hold some of the keys
KeyOrders ==
  {ks \in UNION {[1..n -> QueryKeys] : n \in 0..Cardinality(QueryKeys)} :
     \A i, j \in 1..Len(ks) : i # j => ks[i] # ks[j]}

QueryMappings ==
  UNION {{[i \in 1..Len(ks) |-> <<ks[i], vs[i]>>] :
            vs \in {f \in [1..Len(ks) -> UNION {QueryValues(k) : k \in QueryKeys}] :
                      \A i \in 1..Len(ks) : f[i] \in QueryValues(ks[i])}} :
         ks \in KeyOrders}

QueryDescriptors ==
  {[Descriptor("GET", <<"/", "heritage">>) EXCEPT !.query = QueryMap(m)] :
     m \in QueryMappings}
  \cup {Descriptor("GET", <<"/", "heritage">>)}

QueryResponses == {Response(200, <<"application/", "json">>, ErrorBody(Undef))}

NextQuery ==
  \/ \E d \in QueryDescriptors : Send(d)
  \/ \E r \in QueryResponses : FetchResolve(r)
  \/ \E e \in {"TypeError"} : FetchReject(e)
  \/ \E ok \in BOOLEAN : BodySettle(ok)

SpecQuery == InitDefault /\ [][NextQuery]_vars

\* the query string of the request handed to fetch, and its pieces
UrlSearch == call.req.url.search
UrlKeys == [i \in 1..Len(UrlSearch) |-> UrlSearch[i][1]]

RECURSIVE ValuesOfKey(_, _)
ValuesOfKey(sp, k) ==
  IF sp = <<>> THEN <<>>
  ELSE (IF sp[1][1] = k THEN <<sp[1][2]>> ELSE <<>>) \o ValuesOfKey(Tail(sp), k)

RECURSIVE FirstOccurrences(_, _)
FirstOccurrences(keys, seen) ==
  IF keys = <<>> THEN <<>>
  ELSE (IF keys[1] \in seen THEN <<>> ELSE <<keys[1]>>)
       \o FirstOccurrences(Tail(keys), seen \cup {keys[1]})

RECURSIVE NonNullStrings(_)
NonNullStrings(items) ==
  IF items = <<>> THEN <<>>
  ELSE (IF items[1].t \in {"null", "undefined"} THEN <<>>
        ELSE <<ToQueryString(items[1])>>) \o NonNullStrings(Tail(items))

\* a value that has something to put in the URL
HasQueryValue(v) ==
  /\ v.t \notin {"null", "undefined"}
  /\ v.t = "array" => NonNullStrings(v.items) # <<>>

RECURSIVE KeysWithValue(_)
KeysWithValue(entries) ==
  IF entries = <<>> THEN <<>>
  ELSE (IF HasQueryValue(entries[1][2]) THEN <<entries[1][1]>> ELSE <<>>)
       \o KeysWithValue(Tail(entries))

HasQueryCall == call.pc # "idle" /\ call.desc.query.t = "map"

\* C6: an array value with n non-null entries appears in the URL of the request
\* as n key=value pairs, in the order of the array.
C6_ArrayRepeatsKey ==
  HasQueryCall =>
    \A i \in 1..Len(call.desc.query.entries) :
      LET k == call.desc.query.entries[i][1]
          v == call.desc.query.entries[i][2]
      IN  v.t = "array" => ValuesOfKey(UrlSearch, k) = NonNullStrings(v.items)

ArgObject(fields, signal, headers, ifNoneMatch, ifModifiedSince) ==
  [fields |-> fields, signal |-> signal, headers |-> headers,
   ifNoneMatch |-> ifNoneMatch, ifModifiedSince |-> ifModifiedSince]

EmptyObject == ArgObject(<<>>, None, NoInit, None, None)      \* {}

\* methods that forward ifNoneMatch, ifModifiedSince and signal
ConditionalMethods ==
  {"getDatasetManifest", "getStats", "listHeritage", "getHeritageFilters",
   "searchHeritage", "getRandomHeritage", "getTimelineFeatured", "listGeoHeritage",
   "getGeoFeature", "getGeoNearby", "getChangefeed", "getMedia", "searchMedia",
   "getRandomMedia", "getCitation", "getAIContext", "getAIEmbedding"}

\* methods that copy options.headers into a Headers object and set Accept on it
AcceptMethods == {"getHeritageDump", "getGeoDump", "getAIContextDump", "getAIVectorIndex"}

\* methods that forward headers, ifNoneMatch, ifModifiedSince and signal
FullMethods == {"getAIMetadata", "getAILicense", "getAATTerm"}

\* methods that forward headers and signal
HeadersSignalMethods == {"getAIVisionContext", "searchAAT"}

\* methods that forward the signal alone
SignalOnlyMethods == {"reportCitation", "findSimilar"}

\* methods that spread options into the descriptor and options.headers into an
\* object literal that ends with Accept
SpreadMethods ==
  {"getHeritageCIDOC", "getHeritageLIDO", "exportHeritageLIDO", "oaipmhIdentify",
   "oaipmhListMetadataFormats", "oaipmhListSets", "oaipmhListIdentifiers",
   "oaipmhListRecords", "oaipmhGetRecord"}

Methods ==
  ConditionalMethods \cup AcceptMethods \cup FullMethods \cup HeadersSignalMethods
    \cup SignalOnlyMethods \cup SpreadMethods

Slug == "taj-mahal"

MethodPath(m) ==
  CASE m = "getDatasetManifest" -> <<"/">>
    [] m = "getStats" -> <<"/", "stats">>
    [] m = "listHeritage" -> <<"/", "heritage">>
    [] m = "getHeritageFilters" -> <<"/", "heritage", "/", "filters">>
    [] m = "searchHeritage" -> <<"/", "heritage", "/", "search">>
    [] m = "getRandomHeritage" -> <<"/", "heritage", "/", "random">>
    [] m = "getTimelineFeatured" -> <<"/", "timeline", "/", "featured">>
    [] m = "listGeoHeritage" -> <<"/", "geo", "/", "heritage">>
    [] m = "getGeoFeature" -> <<"/", "geo", "/", "heritage", "/", Slug>>
    [] m = "getGeoNearby" -> <<"/", "geo", "/", "nearby">>
    [] m = "getHeritageDump" -> <<"/", "dump", "/", "heritage.ndjson">>
    [] m = "getGeoDump" -> <<"/", "dump", "/", "geo.geojson">>
    [] m = "getAIContextDump" -> <<"/", "dump", "/", "ai-context.jsonl">>
    [] m = "getChangefeed" -> <<"/", "changes">>
    [] m = "getMedia" -> <<"/", "media", "/", Slug>>
    [] m = "searchMedia" -> <<"/", "media", "/", "search">>
    [] m = "getRandomMedia" -> <<"/", "media", "/", "random">>
    [] m = "getCitation" -> <<"/", "citation", "/", Slug>>
    [] m = "reportCitation" -> <<"/", "citation", "/", "report">>
    [] m = "getAIContext" -> <<"/", "ai", "/", "context", "/", Slug>>
    [] m = "getAIEmbedding" -> <<"/", "ai", "/", "embedding", "/", Slug>>
    [] m = "findSimilar" -> <<"/", "ai", "/", "similar">>
    [] m = "getAIMetadata" -> <<"/", "ai", "/", "meta", "/", Slug>>
    [] m = "getAIVisionContext" -> <<"/", "ai", "/", "vision", "/", "context">>
    [] m = "getAIVectorIndex" -> <<"/", "ai", "/", "vector-index.ndjson">>
    [] m = "getAILicense" -> <<"/", "license", "/", "ai">>
    [] m = "getHeritageCIDOC" -> <<"/", "cidoc", "/", Slug>>
    [] m = "getHeritageLIDO" -> <<"/", "lido", "/", Slug>>
    [] m = "exportHeritageLIDO" -> <<"/", "lido", "/", "export">>
    [] m = "searchAAT" -> <<"/", "aat">>
    [] m = "getAATTerm" -> <<"/", "aat", "/", Slug>>
    [] OTHER -> <<"/", "oai-pmh">>

MethodAccept(m) ==
  CASE m = "getHeritageDump" -> "application/x-ndjson"
    [] m = "getGeoDump" -> "application/geo+json"
    [] m = "getAIContextDump" -> "application/jsonl"
    [] m = "getAIVectorIndex" -> "application/x-ndjson"
    [] m = "getHeritageCIDOC" -> "application/ld+json"
    [] m = "getHeritageLIDO" -> "application/xml"
    [] m = "exportHeritageLIDO" -> "application/zip"
    [] OTHER -> "text/xml"

MethodBody(m) ==
  CASE m = "reportCitation" ->
         Obj([entity |-> Str(Slug), app_name |-> Str("app"), domain |-> Str("example.org")])
    [] m = "findSimilar" -> Obj([slug |-> Str(Slug)])
    [] m = "getAIVisionContext" -> Obj([image_url |-> Str("https://example.org/a.jpg")])
    [] OTHER -> Undef

\* The query a method builds when called with its required arguments alone
\* (the optional members of params are undefined and are skipped on the URL)
MethodQuery(m) ==
  CASE m = "searchHeritage" ->
         QueryMap(<<<<"q", QStr("temple")>>, <<"state", QUndef>>, <<"style", QUndef>>,
                    <<"country", QUndef>>, <<"limit", QUndef>>>>)
    [] m = "getGeoNearby" -> QueryMap(<<<<"lat", QNum(25)>>, <<"lon", QNum(10)>>>>)
    [] m = "oaipmhIdentify" -> QueryMap(<<<<"verb", QStr("Identify")>>>>)
    [] m = "oaipmhListMetadataFormats" -> QueryMap(<<<<"verb", QStr("ListMetadataFormats")>>>>)
    [] m = "oaipmhListSets" -> QueryMap(<<<<"verb", QStr("ListSets")>>>>)
    [] m = "oaipmhListIdentifiers" ->
         QueryMap(<<<<"verb", QStr("ListIdentifiers")>>, <<"metadataPrefix", QStr("oai_dc")>>>>)
    [] m = "oaipmhListRecords" ->
         QueryMap(<<<<"verb", QStr("ListRecords")>>, <<"metadataPrefix", QStr("oai_dc")>>>>)
    [] m = "oaipmhGetRecord" ->
         QueryMap(<<<<"verb", QStr("GetRecord")>>, <<"identifier", QStr(Slug)>>,
                    <<"metadataPrefix", QStr("oai_dc")>>>>)
    [] OTHER -> NoQuery

\* { ...headers, Accept: accept }: the own enumerable members of the argument (a
\* Headers instance has none), with the member named exactly "Accept" set last.
SpreadWithAccept(headers, accept) ==
  LET own == IF headers.t = "plain" THEN headers.entries ELSE <<>>
  IN  IF \E i \in 1..Len(own) : own[i][1] = "Accept"
      THEN Plain([i \in 1..Len(own) |->
                    IF own[i][1] = "Accept" THEN <<"Accept", accept>> ELSE own[i]])
      ELSE Plain(Append(own, <<"Accept", accept>>))

\* The descriptor method m hands to send() when called with the options object o
MethodDescriptor(m, o) ==
  LET base == [Descriptor(IF MethodBody(m) = Undef THEN "GET" ELSE "POST", MethodPath(m))
                 EXCEPT !.query = MethodQuery(m), !.body = MethodBody(m),
                        !.signal = o.signal]
      conditional == [base EXCEPT !.ifNoneMatch = o.ifNoneMatch,
                                  !.ifModifiedSince = o.ifModifiedSince]
  IN  CASE m \in ConditionalMethods -> conditional
        [] m \in AcceptMethods ->
             [conditional EXCEPT
                !.headers = HeadersObj(HSet(NewHeaders(o.headers), "Accept", MethodAccept(m)))]
        [] m \in FullMethods -> [conditional EXCEPT !.headers = o.headers]
        [] m \in HeadersSignalMethods -> [base EXCEPT !.headers = o.headers]
        [] m \in SignalOnlyMethods -> base
        [] m \in SpreadMethods ->
             [conditional EXCEPT !.headers = SpreadWithAccept(o.headers, MethodAccept(m))]

\* params.fields.join(",")
JoinComma(fields) ==
  CASE fields = <<"name">> -> "name"
    [] fields = <<"name", "slug">> -> "name,slug"
    [] OTHER -> ""

\* getHeritage(slug, params = {}, options = {})
GetHeritageDescriptor(slug, params, options) ==
  [Descriptor("GET", <<"/", "heritage", "/", slug>>) EXCEPT
     !.query = QueryMap(IF Len(params.fields) > 0
                        THEN <<<<"fields", QStr(JoinComma(params.fields))>>>>
                        ELSE <<>>),
     !.ifNoneMatch = options.ifNoneMatch,
     !.ifModifiedSince = options.ifModifiedSince,
     !.signal = options.signal]

\* client.<m>(..., o): the method runs up to the fetch of its send()
CallMethod(m, o) ==
  /\ ctor = "ok"
  /\ Settled(call)
  /\ call' = SendStart(client, [m |-> m, params |-> EmptyObject, options |-> o],
                       MethodDescriptor(m, o))
  /\ client' = [client EXCEPT !.baseHeaders = BaseHeadersAfterSend(client, MethodDescriptor(m, o))]
  /\ UNCHANGED <<ctor, ctorOpts, other, hook>>

\* client.getHeritage(slug, second, third): the second argument is params, the
\* third is options
CallGetHeritage(slug, second, third) ==
  /\ ctor = "ok"
  /\ Settled(call)
  /\ call' = SendStart(client, [m |-> "getHeritage", params |-> second, options |-> third],
                       GetHeritageDescriptor(slug, second, third))
  /\ client' = [client EXCEPT !.baseHeaders = BaseHeadersAfterSend(client, GetHeritageDescriptor(slug, second, third))]
  /\ UNCHANGED <<ctor, ctorOpts, other, hook>>

CallerHeaders ==
  {NoInit,
   Plain(<<<<"X-Custom", "caller">>>>),
   HeadersObj(HSet(EmptyHeaders, "X-Custom", "caller"))}

MethodOptions ==
  {ArgObject(<<>>, sig, h, inm, ims) :
     sig \in {None, "signal-1"}, h \in CallerHeaders,
     inm \in {None, "etag-1"}, ims \in {None, "Wed, 21 Oct 2015 07:28:00 GMT"}}

\* the option objects the documentation passes as the second argument
DocumentedOptions ==
  {ArgObject(<<>>, None, NoInit, "etag-1", None),
   ArgObject(<<>>, None, NoInit, None, "Wed, 21 Oct 2015 07:28:00 GMT"),
   ArgObject(<<>>, "signal-1", NoInit, None, None)}

HeritageParams == {EmptyObject, ArgObject(<<"name", "slug">>, None, NoInit, None, None)}

NextMethods ==
  \/ \E m \in Methods, o \in MethodOptions : CallMethod(m, o)
  \/ \E second \in HeritageParams \cup DocumentedOptions, third \in {EmptyObject} \cup MethodOptions :
       CallGetHeritage(Slug, second, third)
  \/ \E r \in QueryResponses : FetchResolve(r)
  \/ \E e \in {"TypeError"} : FetchReject(e)
  \/ \E ok \in {TRUE} : BodySettle(ok)

SpecMethods == InitDefault /\ [][NextMethods]_vars

IsMethodCall == call.pc # "idle" /\ call.entry.m \notin {"none", "send"}

\* C9: on every endpoint method the signal, headers, ifNoneMatch and
\* ifModifiedSince of the options argument reach the request.
C9_OptionsPassThrough ==
  IsMethodCall =>
    LET o == call.entry.options
        given == NewHeaders(o.headers)
    IN  /\ o.signal # None => call.req.signal = o.signal
        /\ o.ifNoneMatch # None =>
             HGet(call.req.headers, "If-None-Match") = <<o.ifNoneMatch>>
        /\ o.ifModifiedSince # None =>
             HGet(call.req.headers, "If-Modified-Since") = <<o.ifModifiedSince>>
        /\ \A n \in HeaderNames : given[n] # <<>> => call.req.headers[n] = given[n]

\* C10: getHeritage(slug, { ifNoneMatch: etag }) sends If-None-Match: etag, and
\* getHeritage(slug, { signal }) hands the signal to fetch.
C10_GetHeritageTwoArguments ==
  (IsMethodCall /\ call.entry.m = "getHeritage" /\ call.entry.options = EmptyObject) =>
    /\ call.entry.params.ifNoneMatch # None =>
         HGet(call.req.headers, "If-None-Match") = <<call.entry.params.ifNoneMatch>>
    /\ call.entry.params.signal # None => call.req.signal = call.entry.params.signal

(***************************************************************************)
(* Request assembly: clients built with every kind of defaultHeaders, and  *)
(* descriptors with every class of body, per-call headers and conditional  *)
(* tokens.                                                                 *)
(***************************************************************************)
URLSearchParamsBody == [t |-> "URLSearchParams", v |-> "a=1"]
FormDataBody == [t |-> "FormData", v |-> "a=1"]
BlobBody == [t |-> "Blob", v |-> "bytes"]

RequestBodies ==
  {Undef, Null, Str("raw text"), Obj([slug |-> Str("taj-mahal")]), Num(5),
   URLSearchParamsBody, FormDataBody, BlobBody, Buf("bytes")}

RequestDefaultHeaders ==
  {NoInit,
   Plain(<<<<"Content-Type", "text/plain">>, <<"X-Custom", "from-defaults">>>>),
   Plain(<<<<"Accept", "text/csv">>, <<"If-None-Match", "etag-default">>,
           <<"User-Agent", "ua-default">>>>)}

RequestCtorOptions ==
  {Options(None, p, None, [baseUrl |-> NoUrl, userAgent |-> ua, defaultHeaders |-> h]) :
     p \in {None, PLAN_COMMERCIAL}, ua \in {None, "my-app/1.0"},
     h \in RequestDefaultHeaders}

RequestOverrides ==
  {NoInit,
   Plain(<<<<"content-type", "application/xml">>, <<"X-Custom", "per-call">>>>),
   Plain(<<<<"If-None-Match", "etag-override">>, <<"Accept", "text/html">>,
           <<"X-Inheritage-Plan", "per-call">>>>),
   HeadersObj(HSet(HSet(EmptyHeaders, "If-Modified-Since", "date-override"),
                   "User-Agent", "ua-override"))}

RequestDescriptors ==
  {[Descriptor("POST", <<"/", "ai", "/", "similar">>) EXCEPT
      !.body = b, !.headers = h, !.ifNoneMatch = inm, !.ifModifiedSince = ims] :
     b \in RequestBodies, h \in RequestOverrides,
     inm \in {None, "etag-1"}, ims \in {None, "Wed, 21 Oct 2015 07:28:00 GMT"}}

InitRequest ==
  /\ ctor = "ok"
  /\ ctorOpts \in RequestCtorOptions
  /\ client = NewClient(ctorOpts, TRUE)
  /\ call = IdleCall
  /\ other = IdleCall
  /\ hook = NoHook

NextRequest ==
  \/ \E d \in RequestDescriptors : Send(d)
  \/ \E r \in QueryResponses : FetchResolve(r)
  \/ \E e \in {"TypeError"} : FetchReject(e)
  \/ \E ok \in {TRUE} : BodySettle(ok)

SpecRequest == InitRequest /\ [][NextRequest]_vars

IsSendCall == call.pc # "idle" /\ call.entry.m = "send"

\* the Content-Type the caller supplies: per call, else through defaultHeaders
SuppliedContentType ==
  LET perCall == NewHeaders(call.desc.headers)["content-type"]
      default == NewHeaders(ctorOpts.defaultHeaders)["content-type"]
  IN  IF perCall # <<>> THEN perCall ELSE default

JsonContentTypes == {<<"application/", "json">>, <<"Application/", "ld", "+", "JSON">>}

BodyWasRead == call.pc \in {"returned", "threw"} /\ call.read = "ok"

ParsedBody == IF call.pc = "threw" THEN call.result.payload ELSE call.result.data

\* C12: a response whose Content-Type names JSON is decoded as JSON whatever the
\* responseType hint; for any other Content-Type a hint decides the decoding.
C12_JsonInferenceWins ==
  (IsSendCall /\ call.pc \in {"reading", "returned", "threw"}
     /\ call.resp.status \notin {NOT_MODIFIED, NO_CONTENT}) =>
    LET hint == call.desc.responseType
        body == call.resp.body
    IN  /\ call.resp.contentType \in JsonContentTypes =>
             /\ call.finalType = "json"
             /\ BodyWasRead =>
                  ParsedBody = (IF body.json = NotJson THEN Null ELSE body.json)
        /\ (call.resp.contentType \notin JsonContentTypes /\ hint # None) =>
             /\ call.finalType = hint
             /\ (BodyWasRead /\ hint = "text") => ParsedBody = Str(body.text)
             /\ (BodyWasRead /\ hint = "arrayBuffer") => ParsedBody = Buf(body.text)

C12_Witness ==
  /\ IsSendCall /\ call.pc = "returned" /\ call.read = "ok"
  /\ call.desc.responseType = "text"
  /\ call.resp.contentType = <<"application/", "json">>
  /\ call.result.data.t = "object"

(***************************************************************************)
(* Response headers: a default client, one descriptor, and responses with  *)
(* every combination of rate-limit and Retry-After headers.                *)
(***************************************************************************)
RateHeaderValues == {None, "", "abc"}

RetryAfterValues ==
  {None, "", "0", "30", "-5", "soon", "Wed, 21 Oct 2015 07:28:45 GMT"}

\* Date.now() when the response is handled, in milliseconds
Clock == {0, 500, 45000, 50000}

HeaderResponses ==
  {[Response(s, <<"application/", "json">>, ErrorBody(Undef)) EXCEPT
      !.rlLimit = l, !.rlRemaining = rem, !.rlReset = rst,
      !.retryAfter = ra, !.now = now] :
     s \in {200, 304, 429},
     l \in RateHeaderValues \cup {"120"}, rem \in RateHeaderValues \cup {"118"},
     rst \in RateHeaderValues \cup {"60"},
     ra \in RetryAfterValues, now \in Clock}

NextHeaders ==
  \/ \E d \in {Descriptor("GET", <<"/", "stats">>)} : Send(d)
  \/ \E r \in HeaderResponses : FetchResolve(r)
  \/ \E e \in {"TypeError"} : FetchReject(e)
  \/ \E ok \in BOOLEAN : BodySettle(ok)

SpecHeaders == InitDefault /\ [][NextHeaders]_vars

HasOutcome == IsSendCall /\ call.pc \in {"returned", "threw"}

\* C13: rateLimit is the three numbers of X-RateLimit-Limit, -Remaining and
\* -Reset when all three are numeric, and absent otherwise; the outcome of the
\* call is the one its status gives.
C13_RateLimitAllOrNothing ==
  HasOutcome =>
    /\ call.result.rateLimit =
         (IF call.resp.rlLimit = "120" /\ call.resp.rlRemaining = "118"
             /\ call.resp.rlReset = "60"
          THEN [t |-> "object", limit |-> 120, remaining |-> 118, reset |-> 60]
          ELSE Undef)
    /\ call.pc = "returned" <=> call.resp.status \in {200, NOT_MODIFIED}

C13_Witness ==
  /\ HasOutcome
  /\ call.resp.rlLimit = "120" /\ call.resp.rlRemaining = "abc" /\ call.resp.rlReset = "60"
  /\ call.result.rateLimit = Undef

HttpDate == "Wed, 21 Oct 2015 07:28:45 GMT"

\* C14: retryAfter is the number of a raw integer Retry-After, the seconds from
\* now to an HTTP date (zero when the date has passed), and absent for a missing
\* or unparseable header; it is never negative.
C14_RetryAfter ==
  (IsSendCall /\ call.pc = "threw") =>
    LET header == call.resp.retryAfter
        retryAfter == call.result.retryAfter
        untilDate == DateTime(HttpDate).n - call.resp.now
    IN  /\ header \in {None, "", "soon"} => retryAfter = Null
        /\ header = "0" => retryAfter = Num(0)
        /\ header = "30" => retryAfter = Num(30)
        /\ header = "-5" => retryAfter = Num(-5)
        /\ header = HttpDate =>
             /\ retryAfter.t = "number"
             /\ untilDate <= 0 => retryAfter.n = 0
             /\ untilDate > 0 =>
                  /\ retryAfter.n * 1000 >= untilDate
                  /\ retryAfter.n * 1000 < untilDate + 1000
        /\ retryAfter = Null \/ retryAfter.n >= 0

(***************************************************************************)
(* getAIVectorIndex on a default client, answered with every NDJSON text   *)
(* of up to MaxTokens tokens.                                              *)
(***************************************************************************)
MaxTokens == 4

NdjsonTokens == LineBreaks \cup {Blank, BrokenDocument} \cup JsonDocuments

NdjsonTexts == UNION {[1..n -> NdjsonTokens] : n \in 0..MaxTokens}

NdjsonResponses ==
  {Response(200, <<"application/", "x-nd", "json">>, [text |-> t, json |-> NotJson]) :
     t \in NdjsonTexts}
  \cup
  {Response(s, <<"application/", "json">>, ErrorBody(Undef)) : s \in {NOT_MODIFIED, 404}}

NextNdjson ==
  \/ \E o \in {EmptyObject} : CallMethod("getAIVectorIndex", o)
  \/ \E r \in NdjsonResponses : FetchResolve(r)
  \/ \E e \in {"TypeError"} : FetchReject(e)
  \/ \E ok \in BOOLEAN : BodySettle(ok)

SpecNdjson == InitDefault /\ [][NextNdjson]_vars

\* the lines of a text: the runs of tokens between line breaks, blanks removed
LineStarts(text) == {1} \cup {i + 1 : i \in {j \in 1..Len(text) : text[j] \in LineBreaks}}

LineFrom(text, start) ==
  LET ends == {j \in start..Len(text) : text[j] \in LineBreaks}
      stop == IF ends = {} THEN Len(text) + 1
              ELSE CHOOSE j \in ends : \A k \in ends : j <= k
  IN  SelectSeq(SubSeq(text, start, stop - 1), LAMBDA tok : tok # Blank)

\* the non-blank lines in order: the starts of non-blank lines, sorted
RECURSIVE NonBlankLines(_, _)
NonBlankLines(text, starts) ==
  IF starts = {} THEN <<>>
  ELSE LET first == CHOOSE i \in starts : \A k \in starts : i <= k
           line == LineFrom(text, first)
       IN  (IF line = <<>> THEN <<>> ELSE <<line>>)
           \o NonBlankLines(text, starts \ {first})

IsVectorIndexOutcome ==
  /\ IsMethodCall /\ call.entry.m = "getAIVectorIndex"
  /\ call.pc \in {"returned", "threw"}
  /\ call.resp.status = 200 /\ call.read = "ok"

\* C15: getAIVectorIndex returns one record per non-blank line of the NDJSON
\* text, in line order; when a non-blank line is not JSON it fails with the
\* parse error and returns no list.
C15_NdjsonRecords ==
  IsVectorIndexOutcome =>
    LET lines == NonBlankLines(call.resp.body.text, LineStarts(call.resp.body.text))
        valid(l) == Len(l) = 1 /\ l[1] \in JsonDocuments
    IN  IF \A i \in 1..Len(lines) : valid(lines[i])
        THEN /\ call.pc = "returned"
             /\ call.result.data.t = "array"
             /\ Len(call.result.data.items) = Len(lines)
             /\ \A i \in 1..Len(lines) :
                  call.result.data.items[i] = JsonParse(lines[i])
        ELSE /\ call.pc = "threw"
             /\ call.result = NdjsonError

C15_Witness ==
  /\ IsVectorIndexOutcome
  /\ call.resp.body.text =
       <<"{\"slug\":\"hampi\"}", "\r\n", "{\"slug\":\"konark\"}", "\n">>
  /\ call.result.data.items = <<Obj([slug |-> Str("hampi")]), Obj([slug |-> Str("konark")])>>

C15_WitnessMalformed ==
  /\ IsVectorIndexOutcome
  /\ call.resp.body.text = <<"{\"slug\":\"hampi\"}", "\n", BrokenDocument>>
  /\ call.pc = "threw"

\* C16: when the fetch rejects, the call rejects with the very error of the
\* fetch: no API error, no envelope, no body read.
C16_RejectionPropagates ==
  call.fetchError # None =>
    /\ call.pc = "rejected"
    /\ call.result = [kind |-> "rejection", error |-> call.fetchError]
    /\ call.bodyReads = 0

C16_Witness ==
  /\ IsSendCall
  /\ call.fetchError = "AbortError"
  /\ call.desc.signal # None
  /\ call.pc = "rejected"

\* the built-in baseline of a client built with the given options
BaselineHeader(options, n) ==
  CASE n = "accept" -> <<"application/json">>
    [] n = "x-inheritage-attribution" -> <<OrElse(options.attribution, "visible")>>
    [] n = "x-inheritage-plan" ->
         (IF options.plan = "commercial" THEN <<"commercial">> ELSE <<>>)
    [] n = "user-agent" ->
         <<OrElse(options.userAgent,
                  "inheritage-sdk/0.1 (+https://inheritage.foundation/docs/api)")>>
    [] OTHER -> <<>>

\* the first of the layers, from the last to the first, that has the header
LayeredHeader(n) ==
  LET perCall == NewHeaders(call.desc.headers)[n]
      defaults == NewHeaders(ctorOpts.defaultHeaders)[n]
  IN  IF n = "if-none-match" /\ call.desc.ifNoneMatch # None
      THEN <<call.desc.ifNoneMatch>>
      ELSE IF n = "if-modified-since" /\ call.desc.ifModifiedSince # None
      THEN <<call.desc.ifModifiedSince>>
      ELSE IF perCall # <<>> THEN perCall
      ELSE IF defaults # <<>> THEN defaults
      ELSE BaselineHeader(ctorOpts, n)

\* C17: every request header is the one of the last layer that has it, in the
\* order baseline, defaultHeaders, per-call headers, conditional tokens; so a
\* token of the descriptor is never replaced or dropped by a per-call header.
C17_HeaderLayers ==
  IsSendCall =>
    \A n \in HeaderNames \ {"content-type"} : call.req.headers[n] = LayeredHeader(n)

C17_Witness ==
  /\ IsSendCall
  /\ call.desc.ifNoneMatch = "etag-1"
  /\ NewHeaders(call.desc.headers)["if-none-match"] = <<"etag-override">>
  /\ NewHeaders(ctorOpts.defaultHeaders)["if-none-match"] = <<"etag-default">>
  /\ call.req.headers["if-none-match"] = <<"etag-1">>
  /\ call.req.headers["accept"] = <<"text/html">>

(***************************************************************************)
(* Two calls interleaved on one client.                                    *)
(***************************************************************************)
PlainDescriptor == Descriptor("GET", <<"/", "stats">>)

FrameDescriptors ==
  {PlainDescriptor,
   [Descriptor("POST", <<"/", "ai", "/", "similar">>) EXCEPT
      !.body = Obj([slug |-> Str("taj-mahal")]),
      !.headers = Plain(<<<<"X-Custom", "per-call">>, <<"Accept", "text/html">>>>),
      !.ifNoneMatch = "etag-1", !.query = QueryMap(<<<<"limit", QNum(10)>>>>)],
   [Descriptor("GET", <<"/", "heritage">>) EXCEPT
      !.headers = HeadersObj(HSet(EmptyHeaders, "X-Custom", "other-call")),
      !.ifModifiedSince = "Wed, 21 Oct 2015 07:28:00 GMT"]}

FrameCtorOptions ==
  {DefaultOptions,
   Options(ATTRIBUTION_SUPPRESSED, PLAN_COMMERCIAL, None,
           [baseUrl |-> <<"https://mirror.example", "/", "api", "/">>, userAgent |-> None,
            defaultHeaders |-> Plain(<<<<"X-Custom", "from-defaults">>>>)])}

InitFrame ==
  /\ ctor = "ok"
  /\ ctorOpts \in FrameCtorOptions
  /\ client = NewClient(ctorOpts, TRUE)
  /\ call = IdleCall
  /\ other = IdleCall
  /\ hook = NoHook

NextFrame ==
  \/ \E d \in FrameDescriptors : Send(d)
  \/ Switch
  \/ \E r \in QueryResponses \cup {Response(404, <<"text/", "plain">>, ErrorBody(Undef))} :
       FetchResolve(r)
  \/ \E e \in {"TypeError"} : FetchReject(e)
  \/ \E ok \in BOOLEAN : BodySettle(ok)

SpecFrame == InitFrame /\ [][NextFrame]_vars

\* C18: the client stays as the constructor left it, and the request of every
\* call, whatever calls came before it or are in flight beside it, is the one
\* its own descriptor gives on that configuration.
C18_CallsAreIndependent ==
  /\ client = NewClient(ctorOpts, TRUE)
  /\ \A slot \in {call, other} :
       slot.pc # "idle" =>
         /\ slot.req = SendRequest(NewClient(ctorOpts, TRUE), slot.desc)
         /\ slot.desc = PlainDescriptor =>
              /\ slot.req.headers["x-custom"] = NewHeaders(ctorOpts.defaultHeaders)["x-custom"]
              /\ slot.req.headers["if-none-match"] = <<>>
              /\ slot.req.headers["if-modified-since"] = <<>>
              /\ slot.req.headers["accept"] = <<"application/json">>
              /\ slot.req.body = Undef
              /\ slot.req.url.search = <<>>

C18_Witness ==
  /\ call.pc = "fetching" /\ call.desc = PlainDescriptor
  /\ other.pc = "fetching" /\ other.desc.ifNoneMatch = "etag-1"
  /\ call.req.headers["x-custom"] = <<>>
  /\ other.req.headers["x-custom"] = <<"per-call">>

(***************************************************************************)
(* The React data hooks (src/src/hooks.ts).  A mounted hook is its inputs, *)
(* its three pieces of state, the effect and the re-render it has pending  *)
(* and the requests it has in flight on the client.  The client's promise  *)
(* is settled by the environment: it resolves with an envelope or rejects. *)
(***************************************************************************)
SlugHooks == {"useHeritage", "useMedia", "useCitation", "useAIContext", "useAIMetadata"}
ParamHooks == {"useHeritageList", "useGeoNearby", "useSimilarSites"}
DataHooks == SlugHooks \cup ParamHooks

\* the client method a hook calls
HookMethod(kind) ==
  CASE kind = "useHeritage" -> "getHeritage"
    [] kind = "useHeritageList" -> "listHeritage"
    [] kind = "useGeoNearby" -> "getGeoNearby"
    [] kind = "useMedia" -> "getMedia"
    [] kind = "useCitation" -> "getCitation"
    [] kind = "useAIContext" -> "getAIContext"
    [] kind = "useSimilarSites" -> "findSimilar"
    [] kind = "useAIMetadata" -> "getAIMetadata"

\* the first argument of a hook: a slug or entity id, or the members of params
HookArg(slug, lat, lon, embedding) ==
  [slug |-> slug, lat |-> lat, lon |-> lon, embedding |-> embedding]

Bool(b) == [t |-> "boolean", b |-> b]

\* the options argument: client given or not, enabled true, false or omitted (Undef)
HookOptions(clientGiven, enabled) == [clientGiven |-> clientGiven, enabled |-> enabled]

IsFinite(v) == v.t = "number"                       \* Number.isFinite(v)
Falsy(s) == s \in {None, ""}                        \* !s for an optional string

\* the guard of fetchData: true when the hook goes on to call the client
HookPrecondition(h) ==
  LET enabled == h.options.enabled # Bool(FALSE)          \* options.enabled !== false
  IN  CASE h.kind \in SlugHooks -> ~Falsy(h.arg.slug) /\ enabled
        [] h.kind = "useHeritageList" -> enabled
        [] h.kind = "useGeoNearby" -> enabled /\ IsFinite(h.arg.lat) /\ IsFinite(h.arg.lon)
        [] h.kind = "useSimilarSites" -> enabled /\ (~Falsy(h.arg.slug) \/ h.arg.embedding)

ErrorValue(message) == [t |-> "Error", message |-> message]

\* err instanceof Error ? err : new Error(String(err))
WrapError(err) == IF err.t = "Error" THEN err ELSE ErrorValue(err.v)

NoSettlement == [id |-> 0]

\* the state a component has after its first render
MountedHook(kind, arg, options, stableArg) ==
  [mounted |-> TRUE, kind |-> kind, arg |-> arg, options |-> options,
   stableArg |-> stableArg,
   data |-> Null, loading |-> TRUE, error |-> Null,
   effectPending |-> TRUE, renderPending |-> FALSE,
   inflight |-> <<>>, issued |-> 0, last |-> NoSettlement]

HookState(h) == <<h.data, h.loading, h.error>>

\* a state setter schedules a re-render when it changes the state
WithRender(before, after) ==
  [after EXCEPT !.renderPending = before.renderPending \/ HookState(before) # HookState(after)]

\* fetchData(), up to its await.  A request in flight is the number of the call,
\* the client method called, and whether no other request of the hook has been
\* in flight beside it.
FetchDataStart(h) ==
  IF ~HookPrecondition(h) THEN h
  ELSE WithRender(h, [h EXCEPT
         !.loading = TRUE, !.error = Null, !.issued = @ + 1,
         !.inflight = Append([i \in 1..Len(@) |-> [@[i] EXCEPT !.alone = FALSE]],
                             [id |-> h.issued + 1, method |-> HookMethod(h.kind),
                              alone |-> h.inflight = <<>>])])

RemoveAt(seq, i) == SubSeq(seq, 1, i - 1) \o SubSeq(seq, i + 1, Len(seq))

\* Mutant: a rejection clears the data.
FetchDataClearingOnError(h, i, ok, value) ==
  WithRender(h, [h EXCEPT !.data = IF ok THEN value ELSE Null,
                          !.error = IF ok THEN @ ELSE WrapError(value),
                          !.loading = FALSE,
                          !.inflight = RemoveAt(@, i),
                          !.last = [id |-> h.inflight[i].id, ok |-> ok, value |-> value]])

\* fetchData() after its await: the i-th request in flight resolved with an
\* envelope whose data is value (ok), or rejected with value
FetchDataSettle(h, i, ok, value) ==
  WithRender(h, [h EXCEPT !.data = IF ok THEN value ELSE @,
                          !.error = IF ok THEN @ ELSE WrapError(value),
                          !.loading = FALSE,
                          !.inflight = RemoveAt(@, i),
                          !.last = [id |-> h.inflight[i].id, ok |-> ok, value |-> value]])

\* the dependencies of fetchData differ from those of the previous render: a
\* client built in the render is a new object, and so is a params object the
\* caller builds in the render
DepsChanged(h) ==
  \/ ~h.options.clientGiven
  \/ h.kind \in ParamHooks /\ ~h.stableArg

MaxRequests == 3

\* The component mounts: the first render
HookMount(kind, arg, options, stableArg) ==
  /\ ctor = "ok"
  /\ ~hook.mounted
  /\ hook' = MountedHook(kind, arg, options, stableArg)
  /\ UNCHANGED <<ctor, ctorOpts, client, call, other>>

\* useEffect(() => { fetchData() }, [fetchData])
HookEffect ==
  /\ hook.mounted /\ hook.effectPending
  /\ HookPrecondition(hook) => hook.issued < MaxRequests
  /\ hook' = FetchDataStart([hook EXCEPT !.effectPending = FALSE])
  /\ UNCHANGED <<ctor, ctorOpts, client, call, other>>

\* A re-render after a state change
HookRender ==
  /\ hook.mounted /\ hook.renderPending /\ ~hook.effectPending
  /\ hook' = [hook EXCEPT !.renderPending = FALSE, !.effectPending = DepsChanged(hook)]
  /\ UNCHANGED <<ctor, ctorOpts, client, call, other>>

\* The caller calls refetch()
HookRefetch ==
  /\ hook.mounted /\ ~hook.effectPending
  /\ hook.issued < MaxRequests
  /\ hook' = FetchDataStart(hook)
  /\ UNCHANGED <<ctor, ctorOpts, client, call, other>>

\* The promise of a request in flight settles
HookSettle(i, ok, value) ==
  /\ hook.mounted
  /\ i \in 1..Len(hook.inflight)
  /\ hook' = FetchDataSettle(hook, i, ok, value)
  /\ UNCHANGED <<ctor, ctorOpts, client, call, other>>

(***************************************************************************)
(* One data hook on a default client, with every kind of input.            *)
(***************************************************************************)
HookArgs(kind) ==
  CASE kind \in SlugHooks -> {HookArg(s, Undef, Undef, FALSE) : s \in {"taj-mahal", ""}}
    [] kind = "useHeritageList" -> {HookArg(None, Undef, Undef, FALSE)}
    [] kind = "useGeoNearby" ->
         {HookArg(None, lat, lon, FALSE) : lat \in {Num(25), NaN}, lon \in {Num(10), NaN, Undef}}
    [] kind = "useSimilarSites" ->
         {HookArg(s, Undef, Undef, e) : s \in {None, "taj-mahal"}, e \in BOOLEAN}

HookOptionSets == {HookOptions(g, e) : g \in BOOLEAN, e \in {Undef, Bool(TRUE), Bool(FALSE)}}

ResponseData == {Obj([slug |-> Str("taj-mahal")]), Obj([slug |-> Str("konark")])}

Rejections == {ErrorValue("Network error"), Str("boom")}

InitHook ==
  /\ ctor = "ok"
  /\ ctorOpts = DefaultOptions
  /\ client = NewClient(DefaultOptions, TRUE)
  /\ call = IdleCall
  /\ other = IdleCall
  /\ hook = NoHook

NextHook ==
  \/ \E kind \in DataHooks, options \in HookOptionSets, stableArg \in BOOLEAN :
       \E arg \in HookArgs(kind) : HookMount(kind, arg, options, stableArg)
  \/ HookEffect
  \/ HookRender
  \/ HookRefetch
  \/ \E i \in 1..MaxRequests, value \in ResponseData : HookSettle(i, TRUE, value)
  \/ \E i \in 1..MaxRequests, value \in Rejections : HookSettle(i, FALSE, value)

SpecHook == InitHook /\ [][NextHook]_vars

\* the cases in which a hook must not fetch
PreconditionFails ==
  \/ hook.options.enabled = Bool(FALSE)
  \/ hook.kind \in SlugHooks /\ hook.arg.slug = ""
  \/ hook.kind = "useGeoNearby" /\ (hook.arg.lat.t # "number" \/ hook.arg.lon.t # "number")
  \/ hook.kind = "useSimilarSites" /\ hook.arg.slug = None /\ ~hook.arg.embedding

\* C19: a hook whose precondition fails never calls the client, and once its
\* effect has run it shows loading = false and data = null.
C19_DisabledHookSettles ==
  (hook.mounted /\ PreconditionFails /\ ~hook.effectPending) =>
    /\ hook.issued = 0
    /\ hook.data = Null
    /\ hook.loading = FALSE

TotalRecords == 3

Min(a, b) == IF a < b THEN a ELSE b

\* the records the server returns for a page: `limit` records from `offset` on
Page(offset, limit) ==
  [i \in 1..(IF offset >= TotalRecords THEN 0 ELSE Min(limit, TotalRecords - offset)) |->
     offset + i]

VectorSeen(h) ==
  [data |-> h.data, loading |-> h.loading, hasMore |-> h.hasMore, offset |-> h.offset]

\* the state after the first render: offset = initialParams.offset ?? 0,
\* limit = initialParams.limit ?? 100
MountedVectorHook(limit, options) ==
  LET h == [mounted |-> TRUE, kind |-> "useAIVectorIndex", options |-> options,
            limit |-> limit,
            data |-> Null, loading |-> TRUE, error |-> Null, offset |-> 0,
            hasMore |-> TRUE,
            effectPending |-> TRUE, renderPending |-> FALSE,
            inflight |-> <<>>, issued |-> 0, loadMores |-> 0, last |-> NoSettlement]
  IN  [x \in DOMAIN h \cup {"seen"} |-> IF x = "seen" THEN VectorSeen(h) ELSE h[x]]

VectorState(h) == <<h.data, h.loading, h.error, h.offset, h.hasMore>>

VectorWithRender(before, after) ==
  [after EXCEPT !.renderPending =
     before.renderPending \/ VectorState(before) # VectorState(after)]

\* fetchData(currentOffset, append), up to its await
VectorFetchStart(h, currentOffset, append) ==
  IF h.options.enabled = Bool(FALSE) THEN h
  ELSE VectorWithRender(h, [h EXCEPT
         !.loading = TRUE, !.error = Null, !.issued = @ + 1,
         !.inflight = Append(@, [id |-> h.issued + 1, offset |-> currentOffset,
                                 append |-> append, closureData |-> h.seen.data])])

\* fetchData after its await: request i resolved with the records `page` (ok) or
\* rejected with `page`
VectorFetchSettle(h, i, ok, page) ==
  LET req == h.inflight[i]
  IN  VectorWithRender(h, [h EXCEPT
        !.data = IF ~ok THEN @
                 ELSE IF req.append /\ req.closureData # Null
                 THEN Arr(req.closureData.items \o page)
                 ELSE Arr(page),
        !.hasMore = IF ok THEN Len(page) = h.limit ELSE @,
        !.error = IF ok THEN @ ELSE WrapError(page),
        !.loading = FALSE,
        !.inflight = RemoveAt(@, i),
        !.last = [id |-> req.id, ok |-> ok, value |-> page]])

\* The component mounts
VectorMount(limit, options) ==
  /\ ctor = "ok"
  /\ ~hook.mounted
  /\ hook' = MountedVectorHook(limit, options)
  /\ UNCHANGED <<ctor, ctorOpts, client, call, other>>

\* useEffect(() => { fetchData(offset) }, [offset])
VectorEffect ==
  /\ hook.mounted /\ hook.effectPending
  /\ hook.options.enabled # Bool(FALSE) => hook.issued < MaxRequests
  /\ hook' = VectorFetchStart([hook EXCEPT !.effectPending = FALSE], hook.seen.offset, FALSE)
  /\ UNCHANGED <<ctor, ctorOpts, client, call, other>>

\* A re-render: the closures now see the current state, and the effect is due
\* when the offset differs from the one of the previous render
VectorRender ==
  /\ hook.mounted /\ hook.renderPending /\ ~hook.effectPending
  /\ hook' = [hook EXCEPT !.renderPending = FALSE, !.seen = VectorSeen(hook),
                          !.effectPending = hook.offset # hook.seen.offset]
  /\ UNCHANGED <<ctor, ctorOpts, client, call, other>>

\* The caller calls loadMore() of the last render
VectorLoadMore ==
  /\ hook.mounted /\ ~hook.effectPending /\ ~hook.renderPending
  /\ hook.issued < MaxRequests
  /\ hook' =
       IF ~hook.seen.hasMore \/ hook.seen.loading THEN hook
       ELSE LET nextOffset == hook.seen.offset + hook.limit
                moved == VectorWithRender(hook, [hook EXCEPT !.offset = nextOffset,
                                                             !.loadMores = @ + 1])
            IN  IF hook.options.enabled = Bool(FALSE) THEN moved
                ELSE VectorFetchStart(moved, nextOffset, TRUE)
  /\ UNCHANGED <<ctor, ctorOpts, client, call, other>>

\* The promise of a request in flight resolves with the page of its offset
VectorResolve(i) ==
  /\ hook.mounted
  /\ i \in 1..Len(hook.inflight)
  /\ hook' = VectorFetchSettle(hook, i, TRUE, Page(hook.inflight[i].offset, hook.limit))
  /\ UNCHANGED <<ctor, ctorOpts, client, call, other>>

\* The promise of a request in flight rejects
VectorReject(i, err) ==
  /\ hook.mounted
  /\ i \in 1..Len(hook.inflight)
  /\ hook' = VectorFetchSettle(hook, i, FALSE, err)
  /\ UNCHANGED <<ctor, ctorOpts, client, call, other>>

VectorLimits == {1, 2}

NextVector ==
  \/ \E limit \in VectorLimits, options \in HookOptionSets : VectorMount(limit, options)
  \/ VectorEffect
  \/ VectorRender
  \/ VectorLoadMore
  \/ \E i \in 1..MaxRequests : VectorResolve(i)
  \/ \E i \in 1..MaxRequests, err \in Rejections : VectorReject(i, err)

SpecVector == InitHook /\ [][NextVector]_vars

\* C21: once the first page has loaded and loadMore has been called, loading =
\* false means data is the first page followed by the next page.
C21_LoadMoreAppends ==
  (/\ hook.mounted /\ hook.loadMores = 1 /\ hook.error = Null
   /\ hook.options.enabled # Bool(FALSE)
   /\ ~hook.loading /\ ~hook.renderPending /\ ~hook.effectPending) =>
    hook.data = Arr(Page(0, hook.limit) \o Page(hook.limit, hook.limit))

\* C22: a string, URLSearchParams, FormData, Blob or ArrayBuffer body is the
\* payload itself, and without a supplied Content-Type the request has none.
C22_PassThroughBody ==
  (IsSendCall /\ call.desc.body.t \in
                   {"string", "URLSearchParams", "FormData", "Blob", "arraybuffer"}) =>
    /\ call.req.body = call.desc.body
    /\ SuppliedContentType = <<>> => HGet(call.req.headers, "Content-Type") = <<>>

(***************************************************************************)
(* Content types: a default client, successful responses whose Content-Type *)
(* is every string of up to MaxTypeTokens pieces of media-type text.        *)
(***************************************************************************)
MaxTypeTokens == 3

TypeTokens ==
  {"application/", "Application/", "text/", "json", "JSON", "zip",
   "octet-stream", "x-nd", "l", "+", "xml"}

InferContentTypes == UNION {[1..n -> TypeTokens] : n \in 0..MaxTypeTokens}

InferResponses ==
  {Response(200, ct, ErrorBody(Undef)) : ct \in InferContentTypes}

NextInfer ==
  \/ \E d \in {PlainDescriptor} : Send(d)
  \/ \E r \in InferResponses : FetchResolve(r)
  \/ \E e \in {"TypeError"} : FetchReject(e)
  \/ \E ok \in BOOLEAN : BodySettle(ok)

SpecInfer == InitDefault /\ [][NextInfer]_vars

Mentions(ct, pattern) ==
  \E i \in 1..(Len(ct) - Len(pattern) + 1) :
    SubSeq(toLowerCase(ct), i, i + Len(pattern) - 1) = pattern

BinaryRule(ct) ==
  Mentions(ct, <<"application/", "zip">>) \/ Mentions(ct, <<"application/", "octet-stream">>)

LinesRule(ct) ==
  Mentions(ct, <<"application/", "x-nd", "json">>) \/ Mentions(ct, <<"application/", "json", "l">>)

JsonRule(ct) ==
  Mentions(ct, <<"application/", "json">>) \/ Mentions(ct, <<"+", "json">>)

RulesMatching(ct) ==
  Cardinality({i \in 1..3 : CASE i = 1 -> BinaryRule(ct)
                              [] i = 2 -> LinesRule(ct)
                              [] i = 3 -> JsonRule(ct)})

\* C23: the decoding strategy of a response is binary for application/zip and
\* application/octet-stream, text for application/x-ndjson and
\* application/jsonl, JSON for application/json and +json, and text for every
\* other content type, the empty one included; the content type is compared
\* without regard to case and the earlier rule wins when several match.
C23_InferredStrategy ==
  (IsSendCall /\ call.pc \in {"reading", "returned"} /\ call.desc.responseType = None) =>
    LET ct == call.resp.contentType
    IN  call.finalType =
          (IF BinaryRule(ct) THEN "arrayBuffer"
           ELSE IF LinesRule(ct) THEN "text"
           ELSE IF JsonRule(ct) THEN "json"
           ELSE "text")

\* C23 witness: a response whose content type, in mixed case, matches the
\* line-delimited rule and the JSON rule was decoded as text.
C23_Witness ==
  /\ IsSendCall /\ call.pc = "returned" /\ call.desc.responseType = None
  /\ call.resp.contentType = <<"Application/", "JSON", "l">>
  /\ RulesMatching(call.resp.contentType) = 2
  /\ call.finalType = "text" /\ call.read = "ok"
  /\ call.result.data = Str(call.resp.body.text)

\* the body read of the call failed, or its JSON parse did
DecodeFailed ==
  /\ IsSendCall /\ call.bodyReads = 1 /\ call.read \in {"ok", "failed"}
  /\ call.read = "failed" \/ (call.finalType = "json" /\ call.resp.body.json = NotJson)

\* C24: a body that cannot be read or parsed does not fail the call: the data
\* is null for JSON, the empty string for text and an empty buffer for binary,
\* and the call returns an envelope on a 2xx status and throws
\* InheritageApiError on every other status, exactly as the status says.
C24_DecodeFailureSwallowed ==
  DecodeFailed =>
    /\ call.pc \in {"returned", "threw"}
    /\ call.pc = "returned" <=> call.resp.status \in 200..299
    /\ call.result.kind = (IF call.pc = "returned" THEN "envelope" ELSE "InheritageApiError")
    /\ call.result.status = call.resp.status
    /\ ParsedBody = (CASE call.finalType = "json" -> Null
                       [] call.finalType = "text" -> Str("")
                       [] call.finalType = "arrayBuffer" -> EmptyBuffer)

\* C24 witness: the JSON parse of a 200 response failed and the call returned
\* an envelope with null data.
C24_Witness ==
  /\ DecodeFailed /\ call.read = "ok" /\ call.finalType = "json"
  /\ call.resp.status = 200 /\ call.pc = "returned" /\ call.result.data = Null

(***************************************************************************)
(* Required arguments: the methods that take an identifier or a payload,   *)
(* as finally defined on the class, called with every kind of value.       *)
(***************************************************************************)
\* methods that check their identifier: !slug || typeof slug !== "string"
CheckedSlugMethods ==
  {"getHeritage", "getGeoFeature", "getMedia", "getCitation", "getAIContext",
   "getAIEmbedding", "getAIMetadata", "getAATTerm"}

\* the second definitions of getHeritageCIDOC and getHeritageLIDO replace the
\* first on the class; they check nothing
UncheckedSlugMethods == {"getHeritageCIDOC", "getHeritageLIDO"}

PayloadMethods ==
  {"searchHeritage", "getGeoNearby", "reportCitation", "findSimilar", "getAIVisionContext"}

ArgumentMethods == CheckedSlugMethods \cup UncheckedSlugMethods \cup PayloadMethods

\* !!v
Truthy(v) ==
  ~(\/ IsNullish(v) \/ v = Str("") \/ v = Num(0) \/ v.t = "NaN" \/ v = Bool(FALSE))

StringTrim(s) == IF s = " " THEN "" ELSE s          \* s.trim()

\* `${v}`
TemplateString(v) ==
  CASE v.t = "undefined" -> "undefined"
    [] v.t = "null" -> "null"
    [] v.t = "number" -> NumStr(v.n)
    [] v.t = "string" -> v.v

encodeURIComponent(s) == IF s = "taj mahal" THEN "taj%20mahal" ELSE s

\* The error a method throws for its first argument before it calls send(), or
\* None when it goes on to send().
ArgumentError(m, a) ==
  CASE m \in CheckedSlugMethods ->
         IF ~Truthy(a) \/ a.t # "string"
         THEN (IF m = "getCitation" THEN "entityId is required"
               ELSE IF m = "getAATTerm" THEN "idOrSlug is required"
               ELSE "slug is required")
         ELSE None
    [] m \in UncheckedSlugMethods -> None
    [] m = "searchHeritage" ->
         LET q == OptProp(a, "q")
         IN  IF IsNullish(q) THEN "search query q is required"
             ELSE IF q.t # "string" THEN "TypeError: params.q.trim is not a function"
             ELSE IF StringTrim(q.v) = "" THEN "search query q is required"
             ELSE None
    [] m = "getGeoNearby" ->
         IF ~IsFinite(OptProp(a, "lat")) \/ ~IsFinite(OptProp(a, "lon"))
         THEN "lat and lon parameters are required numeric values"
         ELSE None
    [] m = "reportCitation" ->
         IF \/ ~Truthy(OptProp(a, "entity")) \/ ~Truthy(Prop(a, "app_name"))
            \/ ~Truthy(Prop(a, "domain"))
         THEN "entity, app_name, and domain are required fields"
         ELSE None
    [] m = "findSimilar" ->
         IF ~Truthy(OptProp(a, "slug")) /\ ~Truthy(OptProp(a, "embedding"))
         THEN "Provide either a slug or an embedding array"
         ELSE IF Truthy(Prop(a, "embedding")) /\ Prop(a, "embedding").t # "array"
         THEN "embedding must be an array of numbers"
         ELSE None
    [] m = "getAIVisionContext" ->
         IF \/ ~Truthy(a)
            \/ Prop(a, "image_url").t # "string" /\ Prop(a, "image_base64").t # "string"
         THEN "Provide either image_url or image_base64 in the request body"
         ELSE None

\* the query object with its member k set to v
WithMember(query, k, v) ==
  QueryMap([i \in 1..Len(query.entries) |->
              IF query.entries[i][1] = k THEN <<k, v>> ELSE query.entries[i]])

\* The descriptor the method hands to send() for an argument it has accepted.
ArgumentDescriptor(m, a) ==
  LET base == IF m = "getHeritage"
              THEN GetHeritageDescriptor(Slug, EmptyObject, EmptyObject)
              ELSE MethodDescriptor(m, EmptyObject)
      prefix == SubSeq(base.path, 1, Len(base.path) - 1)
  IN  CASE m \in CheckedSlugMethods ->
             [base EXCEPT !.path = Append(prefix, encodeURIComponent(a.v))]
        [] m \in UncheckedSlugMethods ->
             [base EXCEPT !.path = Append(prefix, TemplateString(a))]
        [] m = "searchHeritage" ->
             [base EXCEPT !.query = WithMember(@, "q", QStr(a.f.q.v))]
        [] m = "getGeoNearby" ->
             [base EXCEPT !.query = WithMember(WithMember(@, "lat", QNum(a.f.lat.n)),
                                               "lon", QNum(a.f.lon.n))]
        [] m = "findSimilar" ->
             [base EXCEPT !.body =
                Obj([k \in {k \in {"slug", "embedding"} : Truthy(Prop(a, k))} |-> a.f[k]])]
        [] OTHER -> [base EXCEPT !.body = a]

\* client.<m>(a): the method throws for its argument, or runs up to the fetch
\* of its send()
CallWithArgument(m, a) ==
  LET entry == [m |-> m, arg |-> a, params |-> EmptyObject, options |-> EmptyObject]
  IN  /\ ctor = "ok"
      /\ Settled(call)
      /\ IF ArgumentError(m, a) # None
         THEN /\ call' = [IdleCall EXCEPT
                            !.pc = "threw", !.entry = entry,
                            !.result = [kind |-> "Error", message |-> ArgumentError(m, a)]]
              /\ client' = client
         ELSE /\ call' = SendStart(client, entry, ArgumentDescriptor(m, a))
              /\ client' = [client EXCEPT !.baseHeaders =
                              BaseHeadersAfterSend(client, ArgumentDescriptor(m, a))]
      /\ UNCHANGED <<ctor, ctorOpts, other, hook>>

NoMembers == Obj([k \in {} |-> Undef])                        \* {}

SlugArguments == {Undef, Null, Str(""), Num(5), Str(Slug), Str("taj mahal")}

Arguments(m) ==
  CASE m \in CheckedSlugMethods \cup UncheckedSlugMethods -> SlugArguments
    [] m = "searchHeritage" ->
         {Undef, NoMembers}
           \cup {Obj([q |-> q]) : q \in {Undef, Str(""), Str(" "), Num(42), Str("temple")}}
    [] m = "getGeoNearby" ->
         {Undef} \cup {Obj([lat |-> lat, lon |-> lon]) :
                         lat \in {Undef, NaN, Str("25"), Num(25)}, lon \in {Undef, Num(10)}}
    [] m = "reportCitation" ->
         {Undef} \cup {Obj([entity |-> e, app_name |-> n, domain |-> d]) :
                         e \in {Undef, Str(""), Num(42), Str(Slug)},
                         n \in {Str(""), Str("app")}, d \in {Undef, Str("example.org")}}
    [] m = "findSimilar" ->
         {Undef, NoMembers}
           \cup {Obj([slug |-> sl, embedding |-> e]) :
                   sl \in {Undef, Str(""), Num(42), Str(Slug)},
                   e \in {Undef, Str("0.1,0.2"), Arr(<<Num(1), Num(2)>>)}}
    [] m = "getAIVisionContext" ->
         {Undef, Null, NoMembers, Obj([image_base64 |-> Str("aGVyaXRhZ2U=")])}
           \cup {Obj([image_url |-> u]) :
                   u \in {Num(42), Str(""), Str("https://example.org/a.jpg")}}

NextArguments ==
  \/ \E m \in ArgumentMethods : \E a \in Arguments(m) : CallWithArgument(m, a)
  \/ \E r \in QueryResponses : FetchResolve(r)
  \/ \E e \in {"TypeError"} : FetchReject(e)
  \/ \E ok \in BOOLEAN : BodySettle(ok)

SpecArguments == InitDefault /\ [][NextArguments]_vars

IsArgumentCall == call.pc # "idle" /\ call.entry.m \in ArgumentMethods

NonEmptyString(v) == v.t = "string" /\ v.v # ""

\* the required argument is missing, empty or of the wrong type
BadArgument(m, a) ==
  CASE m \in CheckedSlugMethods \cup UncheckedSlugMethods -> ~NonEmptyString(a)
    [] m = "searchHeritage" -> ~NonEmptyString(OptProp(a, "q"))
    [] m = "getGeoNearby" -> OptProp(a, "lat").t # "number" \/ OptProp(a, "lon").t # "number"
    [] m = "reportCitation" ->
         \E k \in {"entity", "app_name", "domain"} : ~NonEmptyString(OptProp(a, k))
    [] m = "findSimilar" ->
         ~NonEmptyString(OptProp(a, "slug")) /\ OptProp(a, "embedding").t # "array"
    [] m = "getAIVisionContext" ->
         ~NonEmptyString(OptProp(a, "image_url")) /\ ~NonEmptyString(OptProp(a, "image_base64"))

\* C25: a method that requires an identifier or a payload, called with one
\* that is missing, empty or of the wrong type, throws before any network
\* call: fetch is never invoked.  Violated: getHeritageCIDOC and
\* getHeritageLIDO, as finally defined, send whatever they are given.
C25_ValidatedBeforeFetch ==
  (IsArgumentCall /\ BadArgument(call.entry.m, call.entry.arg)) =>
    /\ call.pc = "threw"
    /\ call.result.kind = "Error"
    /\ call.fetches = 0

\* C26: a 304 answer to getAIVectorIndex gives an envelope with
\* notModified = true and data = null.  Violated: the method replaces the null
\* data of the not-modified envelope by the records of the empty text.
C26_VectorIndexNotModified ==
  (/\ IsMethodCall /\ call.entry.m = "getAIVectorIndex"
   /\ Settled(call) /\ call.fetchError = None
   /\ call.resp.status = NOT_MODIFIED) =>
    /\ call.pc = "returned"
    /\ call.result.notModified = TRUE
    /\ call.result.data = Null

(***************************************************************************)
(* Attribution and plan: clients built with every attribution and plan,    *)
(* with defaultHeaders and per-call headers that name the two headers.     *)
(***************************************************************************)
PlanHeaderInits ==
  {NoInit,
   Plain(<<<<"X-Custom", "from-caller">>>>),
   Plain(<<<<"X-Inheritage-Plan", PLAN_COMMERCIAL>>>>),
   Plain(<<<<"X-Inheritage-Plan", PLAN_PUBLIC>>>>),
   Plain(<<<<"X-Inheritage-Attribution", ATTRIBUTION_SUPPRESSED>>>>),
   HeadersObj(HSet(EmptyHeaders, "x-inheritage-attribution", ATTRIBUTION_VISIBLE))}

PlanCtorOptions ==
  {Options(a, p, None, [baseUrl |-> NoUrl, userAgent |-> None, defaultHeaders |-> h]) :
     a \in {None, ATTRIBUTION_VISIBLE, ATTRIBUTION_SUPPRESSED},
     p \in {None, PLAN_PUBLIC, PLAN_COMMERCIAL},
     h \in PlanHeaderInits}

PlanDescriptors == {[PlainDescriptor EXCEPT !.headers = h] : h \in PlanHeaderInits}

NextPlan ==
  \/ \E o \in PlanCtorOptions : Construct(o, TRUE)
  \/ \E d \in PlanDescriptors : Send(d)
  \/ \E r \in QueryResponses : FetchResolve(r)
  \/ \E e \in {"TypeError"} : FetchReject(e)
  \/ \E ok \in BOOLEAN : BodySettle(ok)

SpecPlan == Init /\ [][NextPlan]_vars

\* C27: a request of a constructed client that carries
\* X-Inheritage-Attribution: suppressed carries X-Inheritage-Plan: commercial,
\* whatever the defaultHeaders and the per-call headers.  Violated: either
\* header can be set through defaultHeaders or per call, past the constructor.
C27_SuppressedOnlyCommercial ==
  (IsSendCall /\ ctor = "ok"
     /\ HGet(call.req.headers, "X-Inheritage-Attribution") = <<ATTRIBUTION_SUPPRESSED>>) =>
    HGet(call.req.headers, "X-Inheritage-Plan") = <<PLAN_COMMERCIAL>>

\* C28: the data a hook shows is the response to its most recently issued
\* request: when a request settles after a later-issued one has resolved, the
\* data stays that of the later one.  Violated: fetchData sets the state for
\* every response in the order of arrival.
C28_LatestRequestWins ==
  [][(/\ hook.mounted /\ hook'.mounted /\ hook.kind \in DataHooks
      /\ hook'.last # hook.last
      /\ hook.last.id > hook'.last.id /\ hook.last.ok) =>
       hook'.data = hook.data]_vars

\* C29: a hook mounted without a client option, its inputs unchanged, issues
\* one request and stays settled: once it has issued a request, a run of its
\* effect issues no further one.  Violated: the client built in each render is
\* a new dependency of fetchData, so every re-render runs the effect again.
C29_OneRequestWithoutClient ==
  [][(/\ hook.mounted /\ hook'.mounted /\ hook.kind \in DataHooks
      /\ ~hook.options.clientGiven
      /\ hook.kind \in SlugHooks \/ hook.stableArg
      /\ hook.effectPending /\ ~hook'.effectPending
      /\ hook.issued >= 1) =>
       /\ hook'.issued = hook.issued
       /\ hook'.loading = hook.loading]_vars

\* C30: in every state of a hook, loading = false implies that no request of
\* the hook is in flight.  Violated: the first of two overlapping requests to
\* settle sets loading to false while the other is still in flight.
C30_NotLoadingMeansIdle ==
  (hook.mounted /\ ~hook.loading) => hook.inflight = <<>>

====
